---------------------------- MODULE Spec2Model ----------------------------
(***************************************************************************)
(* Completion orchestrator of simple_rag_writer: ModelRegistry.complete,   *)
(* ModelRegistry.complete_streaming (llm/registry.py) and the retry        *)
(* wrapper run_completion_with_feedback (llm/executor.py).                 *)
(*                                                                         *)
(* A text (prompt, message content, error message) is a sequence of       *)
(* tokens; a token in WS is whitespace; NoneText is Python's None where a  *)
(* text is expected.  Identifiers (model, provider, server, tool, key) are *)
(* plain strings, with "" the empty one and None Python's None.  A dict    *)
(* with string keys is a set of <<key, value>> pairs; an Optional object   *)
(* is a sequence of length 0 or 1.                                         *)
(***************************************************************************)
EXTENDS Integers, Sequences, FiniteSets, TLC

VARIABLES
  \* ---- configuration (AppConfig), loaded once ----
  tool_iteration_defaults, \* AppConfig.tool_iteration_defaults
  mcp_servers,             \* AppConfig.mcp_servers (ids, in order)
  \* ---- ModelRegistry fields ----
  current_id,                  \* _current_id
  provider_supports_functions, \* _provider_supports_functions
  tool_events,                 \* _tool_events
  tool_call_history,           \* _tool_call_history
  \* ---- frame of complete / complete_streaming ----
  pc,        \* "idle", "awaiting", "returned", "raised", "interrupted"
  frame,     \* the locals of the running completion
  outcome,   \* what the completion returned or raised
  \* ---- frame of run_completion_with_feedback ----
  wpc,       \* "idle", "loop", "calling", "returned", "raised"
  wframe,    \* the locals of the wrapper
  woutcome,  \* what the wrapper returned or raised
  \* ---- collaborators, as seen from the orchestrator ----
  requests,    \* provider requests of the running completion
  dispatched,  \* tool-executor calls of the running completion
  listed,      \* catalog listings of the running completion
  chunks,      \* fragments handed to on_chunk by the running completion
  prompts,     \* prompts the wrapper passed to complete, in order
  failures,    \* on_attempt_failure notifications, in order
  ops,         \* top-level operations started so far
  suspended,   \* the completion of another thread, while that thread waits
  reply,       \* LLM tool server: the result of the last tools/call
  merge,       \* merge_generation_params: its arguments and its result
  memory,      \* ManualMemoryStore: _entries, the file at _path, the last call
  repl         \* PlanningRepl.run: turn index, history, turn log, position

vars == << tool_iteration_defaults, mcp_servers, current_id,
           provider_supports_functions, tool_events, tool_call_history,
           pc, frame, outcome, wpc, wframe, woutcome,
           requests, dispatched, listed, chunks, prompts, failures, ops,
           suspended, reply, merge, memory, repl >>

cfgVars == << tool_iteration_defaults, mcp_servers >>
wrapVars == << wpc, wframe, woutcome, prompts, failures >>
\* what the registry and the wrapper never touch
otherVars == << suspended, reply, merge, memory, repl >>

----------------------------------------------------------------------------
(* Bounds of the exploration *)

MaxIter == 2        \* largest configured max_iterations tried
MaxWindow == 2      \* largest configured loop_window tried
MaxOps == 2         \* top-level operations per behaviour
MaxAttempts == 3    \* largest max_attempts handed to the wrapper

None == "None"
NoneText == << "<None>" >>

----------------------------------------------------------------------------
(* Strings *)

WS == {" ", "\n"}

RECURSIVE LStrip(_)
LStrip(s) == IF s # << >> /\ Head(s) \in WS THEN LStrip(Tail(s)) ELSE s

RECURSIVE RStrip(_)
RStrip(s) ==
  IF s # << >> /\ s[Len(s)] \in WS THEN RStrip(SubSeq(s, 1, Len(s) - 1)) ELSE s

Strip(s) == LStrip(RStrip(s))

\* Python truthiness of an Optional[str], for texts and for identifiers
Truthy(s) == s # NoneText /\ s # << >>
TruthyId(a) == a # None /\ a # ""

\* s[start:] such that sub occurs at s[i .. i+Len(sub)-1]; 0 when absent
Find(s, sub, from) ==
  LET hits == { i \in from .. (Len(s) - Len(sub) + 1) :
                  SubSeq(s, i, i + Len(sub) - 1) = sub }
  IN IF hits = {} THEN 0 ELSE CHOOSE i \in hits : \A j \in hits : i <= j

Contains(s, sub) == Find(s, sub, 1) # 0

\* number of positions at which sub occurs in s
Count(s, sub) ==
  Cardinality({ i \in 1 .. (Len(s) - Len(sub) + 1) :
                  SubSeq(s, i, i + Len(sub) - 1) = sub })

----------------------------------------------------------------------------
(* Configuration: config/models.py *)

\* ToolIterationConfig(): the field defaults
BuiltinMaxIterations == 3
BuiltinLoopWindow == 2
BuiltinToolIteration ==
  [max_iterations |-> BuiltinMaxIterations, detect_loops |-> TRUE,
   loop_window |-> BuiltinLoopWindow]

ToolIterationConfigs ==
  [max_iterations : 1 .. MaxIter, detect_loops : BOOLEAN,
   loop_window : 1 .. MaxWindow]

\* AppConfig.providers
ProviderIds == {"openai", "router", "bare"}
Providers(p) ==
  CASE p = "openai" -> [type |-> "openai", api_key |-> "sk", api_key_env |-> None]
    [] p = "router" -> [type |-> "openrouter", api_key |-> None, api_key_env |-> "ROUTER_KEY"]
    [] p = "bare"   -> [type |-> "openai", api_key |-> None, api_key_env |-> None]

ProviderTypes == { Providers(p).type : p \in ProviderIds }

\* AppConfig.models
ModelIds == {"writer", "router", "strict", "orphan", "nokey"}
Models(m) ==
  CASE m = "writer" -> [provider |-> "openai", system_prompt |-> NoneText,
                        tool_iteration_override |-> << >>]
    [] m = "router" -> [provider |-> "router", system_prompt |-> << " ", "Be", "brief", " " >>,
                        tool_iteration_override |-> << >>]
    [] m = "strict" -> [provider |-> "openai", system_prompt |-> NoneText,
                        tool_iteration_override |->
                          << [max_iterations |-> 1, detect_loops |-> TRUE,
                              loop_window |-> 1] >>]
    [] m = "orphan" -> [provider |-> "missing", system_prompt |-> NoneText,
                        tool_iteration_override |-> << >>]
    [] m = "nokey"  -> [provider |-> "bare", system_prompt |-> NoneText,
                        tool_iteration_override |-> << >>]

DefaultModel == "writer"

\* what os.environ.get can give for the variable a provider names
EnvValues == {None, "", "envkey"}

----------------------------------------------------------------------------
(* Generation parameters: llm/params.py *)

\* a parameter value: a number or string (scalar) or a nested dict
Scalar(v) == [scalar |-> v, nested |-> {}]
Nested(d) == [scalar |-> None, nested |-> d]

\* parameter dicts, as sets of <<key, value>> pairs
ParamDicts ==
  { {},
    { << "max_tokens", Scalar("200") >>, << "temperature", Scalar("0.3") >> },
    { << "temperature", Scalar("0.8") >>, << "top_p", Scalar("0.5") >> },
    { << "temperature", Scalar("0.1") >>,
      << "response_format", Nested({ << "type", "json" >> }) >> },
    { << "response_format", Nested({ << "schema", "s" >> }) >>,
      << "max_tokens", Scalar("50") >> } }

\* dict.update(other) on parameter dicts
ParamsUpdate(params, other) ==
  { kv \in params : \A o \in other : o[1] # kv[1] } \cup other

\* a merge in which the model's parameters win over the per-call ones
MergeModelLast(model_defaults, model_params, task_params) ==
  LET p1 == ParamsUpdate({}, model_defaults)
      p2 == IF task_params # << >> /\ task_params[1] # {}
              THEN ParamsUpdate(p1, task_params[1]) ELSE p1
  IN ParamsUpdate(p2, model_params)

\* merge_generation_params; task_params is << >> for None
MergeGenerationParams(model_defaults, model_params, task_params) ==
  LET p1 == ParamsUpdate({}, model_defaults)
      p2 == ParamsUpdate(p1, model_params)
  IN IF task_params # << >> /\ task_params[1] # {}
       THEN ParamsUpdate(p2, task_params[1])
       ELSE p2

----------------------------------------------------------------------------
(* The manual memory store: planning/memory.py *)

MaxEntries == 2

\* uuid.uuid4().hex[:8]
EntryIds == { "a1b2c3d4", "e5f6a7b8" }
\* datetime.now(timezone.utc), which may step back
Clock == 1 .. 2
MemoryTexts == { << >>, << " ", "\n" >>, << " ", "First", "chunk", "\n" >>, << "Second" >> }
MemoryLabels == { NoneText, << " " >>, << " ", "Second", " " >> }

ManualMemoryEntry(entry_id, label, text, created_at) ==
  [entry_id |-> entry_id, label |-> label, text |-> text, created_at |-> created_at]

\* datetime.isoformat and datetime.fromisoformat
IsoFormat(created_at) == << "iso", created_at >>
FromIsoFormat(created_text) == created_text[2]

\* a payload that leaves the label out
ToPayloadUnlabelled(entry) ==
  [entry_id |-> entry.entry_id, label |-> NoneText, text |-> entry.text,
   created_at |-> IsoFormat(entry.created_at)]

\* ManualMemoryEntry.to_payload
ToPayload(entry) ==
  [entry_id |-> entry.entry_id, label |-> entry.label, text |-> entry.text,
   created_at |-> IsoFormat(entry.created_at)]

\* ManualMemoryEntry.from_payload, for a payload to_payload wrote
FromPayload(payload) ==
  ManualMemoryEntry(payload.entry_id, payload.label, Strip(payload.text),
                    FromIsoFormat(payload.created_at))

\* the file: << >> when it does not exist, << "corrupt" >> when json.loads
\* fails or gives no list, << "list", payloads >> otherwise
MissingFile == << >>
CorruptFile == << "corrupt" >>

\* _persist
Persist(entries) == << "list", [i \in 1 .. Len(entries) |-> ToPayload(entries[i])] >>

RECURSIVE KeepWithText(_)
KeepWithText(entries) ==
  IF entries = << >> THEN << >>
  ELSE IF Head(entries).text # << >>
    THEN << Head(entries) >> \o KeepWithText(Tail(entries))
  ELSE KeepWithText(Tail(entries))

\* _load: the entries of a new store on this file
Load(file) ==
  IF file = MissingFile \/ file = CorruptFile THEN << >>
  ELSE KeepWithText([i \in 1 .. Len(file[2]) |-> FromPayload(file[2][i])])

\* sorted(entries, key=created_at): stable
RECURSIVE InsertByCreatedAt(_, _)
InsertByCreatedAt(sorted, entry) ==
  IF sorted = << >> THEN << entry >>
  ELSE IF sorted[Len(sorted)].created_at <= entry.created_at
    THEN Append(sorted, entry)
  ELSE Append(InsertByCreatedAt(SubSeq(sorted, 1, Len(sorted) - 1), entry),
              sorted[Len(sorted)])

RECURSIVE ListEntries(_)
ListEntries(entries) ==
  IF entries = << >> THEN << >>
  ELSE InsertByCreatedAt(ListEntries(SubSeq(entries, 1, Len(entries) - 1)),
                         entries[Len(entries)])

\* the index of the first entry with this id, 0 when there is none
FirstIndex(entries, entry_id) ==
  IF \E i \in 1 .. Len(entries) : entries[i].entry_id = entry_id
    THEN CHOOSE i \in 1 .. Len(entries) :
           /\ entries[i].entry_id = entry_id
           /\ \A j \in 1 .. i - 1 : entries[j].entry_id # entry_id
    ELSE 0

\* `(label or "").strip() or None`
CleanLabel(label) ==
  IF label = NoneText \/ Strip(label) = << >> THEN NoneText ELSE Strip(label)

MemoryUnchanged ==
  UNCHANGED << cfgVars, suspended, reply, merge, repl, current_id,
               provider_supports_functions, tool_events, tool_call_history,
               pc, frame, outcome, wrapVars, requests, dispatched, listed, chunks, ops >>

\* ManualMemoryStore.add
MemoryAdd ==
  /\ \E text \in MemoryTexts, label \in MemoryLabels, entry_id \in EntryIds,
        now \in Clock :
       LET cleaned == Strip(text) IN
       IF cleaned = << >>
         THEN memory' = [memory EXCEPT !.last = [op |-> "add", arg |-> text,
                                                  result |-> "ValueError"]]
       ELSE /\ Len(memory.entries) < MaxEntries
            /\ LET entries == Append(memory.entries,
                                ManualMemoryEntry(entry_id, CleanLabel(label),
                                                  cleaned, now))
               IN memory' = [entries |-> entries, file |-> Persist(entries),
                             last |-> [op |-> "add", arg |-> text, result |-> entry_id]]
  /\ MemoryUnchanged

\* ManualMemoryStore.delete
MemoryDelete ==
  /\ \E entry_id \in EntryIds \cup { "missing" } :
       LET idx == FirstIndex(memory.entries, entry_id) IN
       IF idx = 0
         THEN memory' = [memory EXCEPT !.last = [op |-> "delete", arg |-> << entry_id >>,
                                                  result |-> "False"]]
       ELSE LET entries == SubSeq(memory.entries, 1, idx - 1)
                             \o SubSeq(memory.entries, idx + 1, Len(memory.entries))
            IN memory' = [entries |-> entries, file |-> Persist(entries),
                          last |-> [op |-> "delete", arg |-> << entry_id >>,
                                    result |-> "True"]]
  /\ MemoryUnchanged

\* ManualMemoryStore.clear
MemoryClear ==
  /\ memory' = [entries |-> << >>, file |-> Persist(<< >>),
                last |-> [op |-> "clear", arg |-> << >>, result |-> None]]
  /\ MemoryUnchanged

----------------------------------------------------------------------------
(* JSON, as far as the tool bridge reads it *)

\* dict.update(other) on dicts held as sets of <<key, value>> pairs
DictUpdate(d, other) ==
  { kv \in d : \A o \in other : o[1] # kv[1] } \cup other

\* A decoded JSON document.  kind: "invalid" (json.loads raises), "nonobject"
\* (a list, a number, ...) or "object".  For an object: server and tool are
\* the values under those keys (None: key absent or null); pk tells what is
\* under "params": "absent", "null", "falsy" (0, "", []), "truthy" (a
\* non-empty non-dict) or "obj" (a dict, held in params); extra holds every
\* other top-level key.
Doc(kind, server, tool, pk, params, extra) ==
  [kind |-> kind, server |-> server, tool |-> tool, pk |-> pk,
   params |-> params, extra |-> extra]

InvalidDoc == Doc("invalid", None, None, "absent", {}, {})

\* The JSON texts the model under test may emit, with their decoding
JsonTexts ==
  { [text |-> << "{", "}" >>,
     doc  |-> Doc("object", None, None, "absent", {}, {})],
    [text |-> << "[", "]" >>,
     doc  |-> Doc("nonobject", None, None, "absent", {}, {})],
    [text |-> << "{", "server:notes", "tool:search", "}" >>,
     doc  |-> Doc("object", "notes", "search", "absent", {}, {})],
    [text |-> << "{", "server:notes", "tool:search", "params:", "{", "}", "}" >>,
     doc  |-> Doc("object", "notes", "search", "obj", {}, {})],
    [text |-> << "{", "server:notes", "tool:search", "params:", "{", "query:x", "}", "}" >>,
     doc  |-> Doc("object", "notes", "search", "obj", {<<"query", "x">>}, {})],
    [text |-> << "{", "params:", "{", "query:x", "}", "tool:search", "server:notes", "}" >>,
     doc  |-> Doc("object", "notes", "search", "obj", {<<"query", "x">>}, {})],
    [text |-> << "{", "server:docs", "tool:fetch", "params:null", "}" >>,
     doc  |-> Doc("object", "docs", "fetch", "null", {}, {})],
    [text |-> << "{", "server:notes", "tool:search", "query:x", "}" >>,
     doc  |-> Doc("object", "notes", "search", "absent", {}, {<<"query", "x">>})],
    [text |-> << "{", "server:notes", "tool:search", "params:7", "}" >>,
     doc  |-> Doc("object", "notes", "search", "truthy", {}, {})],
    [text |-> << "{", "server:notes", "tool:search", "params:0", "}" >>,
     doc  |-> Doc("object", "notes", "search", "falsy", {}, {})],
    [text |-> << "{", "server:notes", "tool:search", "params:", "{", "query:x", "}",
                 "query:y", "limit:5", "}" >>,
     doc  |-> Doc("object", "notes", "search", "obj", {<<"query", "x">>},
                  {<<"query", "y">>, <<"limit", "5">>})],
    [text |-> << "{", "server:notes", "}" >>,
     doc  |-> Doc("object", "notes", None, "absent", {}, {})],
    [text |-> << "{", "server:", "tool:search", "}" >>,
     doc  |-> Doc("object", "", "search", "absent", {}, {})],
    \* {"server": "notes", "tool": "search", "params": {"query": "}"}}: the
    \* string value is one closing brace between its quotes
    [text |-> << "{", "server:notes", "tool:search", "params:", "{", "query:\"",
                 "}", "\"", "}", "}" >>,
     doc  |-> Doc("object", "notes", "search", "obj", {<<"query", "}">>}, {})] }

\* json.loads
JsonLoads(s) ==
  IF \E e \in JsonTexts : e.text = s
  THEN (CHOOSE e \in JsonTexts : e.text = s).doc
  ELSE InvalidDoc

----------------------------------------------------------------------------
(* Tool-call parsing: registry.py *)

ToolBridgeName == "call_mcp_tool"

Parsed(ok, error, server, tool, params) ==
  [ok |-> ok, error |-> error, server |-> server, tool |-> tool, params |-> params]

\* a parser that takes a params value that is no object for empty parameters
ParseMcpToolCallLenient(tool_call) ==
  LET arguments == IF tool_call.arguments = << >> \/ tool_call.arguments = NoneText
                   THEN << "{", "}" >> ELSE tool_call.arguments
      parsed == JsonLoads(arguments)
  IN  IF tool_call.name # ToolBridgeName
        THEN Parsed(FALSE, "unsupported_tool", None, None, {})
      ELSE IF parsed.kind = "invalid"
        THEN Parsed(FALSE, "arguments_not_json", None, None, {})
      ELSE IF parsed.kind # "object"
        THEN Parsed(FALSE, "arguments_not_object", None, None, {})
      ELSE IF ~TruthyId(parsed.server) \/ ~TruthyId(parsed.tool)
        THEN Parsed(FALSE, "missing_server_or_tool", None, None, {})
      ELSE IF parsed.pk # "obj"
        THEN Parsed(TRUE, None, parsed.server, parsed.tool, DictUpdate({}, parsed.extra))
      ELSE Parsed(TRUE, None, parsed.server, parsed.tool,
                  DictUpdate(parsed.params, parsed.extra))

\* ModelRegistry._parse_mcp_tool_call, on a structured tool call
\* [id, name, arguments]
ParseMcpToolCall(tool_call) ==
  LET arguments == IF tool_call.arguments = << >> \/ tool_call.arguments = NoneText
                   THEN << "{", "}" >> ELSE tool_call.arguments
      parsed == JsonLoads(arguments)
  IN  IF tool_call.name # ToolBridgeName
        THEN Parsed(FALSE, "unsupported_tool", None, None, {})
      ELSE IF parsed.kind = "invalid"
        THEN Parsed(FALSE, "arguments_not_json", None, None, {})
      ELSE IF parsed.kind # "object"
        THEN Parsed(FALSE, "arguments_not_object", None, None, {})
      ELSE IF ~TruthyId(parsed.server) \/ ~TruthyId(parsed.tool)
        THEN Parsed(FALSE, "missing_server_or_tool", None, None, {})
      ELSE IF parsed.pk \in {"absent", "null"}
        THEN Parsed(TRUE, None, parsed.server, parsed.tool, DictUpdate({}, parsed.extra))
      ELSE IF parsed.pk # "obj"
        THEN Parsed(FALSE, "params_not_object", None, None, {})
      ELSE Parsed(TRUE, None, parsed.server, parsed.tool,
                  DictUpdate(parsed.params, parsed.extra))

\* str.lower() on one token, for the tokens that have an upper-case form
Lower(tok) == IF tok = "CALL_MCP_TOOL" THEN "call_mcp_tool" ELSE tok

\* text.lower().find(marker): first index holding the marker, 0 when absent
FindMarker(text) ==
  LET hits == { i \in 1 .. Len(text) : Lower(text[i]) = ToolBridgeName }
  IN IF hits = {} THEN 0 ELSE CHOOSE i \in hits : \A j \in hits : i <= j

\* the brace-balancing scan: the index after the brace closing the one at
\* pos's start, or 0 when the text ends with depth # 0
RECURSIVE ScanBraces(_, _, _)
ScanBraces(text, pos, depth) ==
  IF pos > Len(text) THEN 0
  ELSE IF text[pos] = "{" THEN ScanBraces(text, pos + 1, depth + 1)
  ELSE IF text[pos] = "}"
    THEN IF depth - 1 = 0 THEN pos + 1 ELSE ScanBraces(text, pos + 1, depth - 1)
  ELSE ScanBraces(text, pos + 1, depth)

\* ModelRegistry._extract_tool_command_from_text; ok = FALSE is the None result
ExtractToolCommandFromText(text) ==
  LET idx == FindMarker(text)
      start == IF idx = 0 THEN 0 ELSE Find(text, << "{" >>, idx)
      end == IF start = 0 THEN 0 ELSE ScanBraces(text, start, 0)
      payload == IF end = 0 THEN InvalidDoc ELSE JsonLoads(SubSeq(text, start, end - 1))
      params == IF payload.pk = "obj" THEN payload.params ELSE {}
  IN  IF idx = 0 THEN Parsed(FALSE, "no_marker", None, None, {})
      ELSE IF start = 0 THEN Parsed(FALSE, "no_brace", None, None, {})
      ELSE IF end = 0 THEN Parsed(FALSE, "unbalanced", None, None, {})
      ELSE IF payload.kind = "invalid" THEN Parsed(FALSE, "not_json", None, None, {})
      ELSE IF payload.pk = "truthy" THEN Parsed(FALSE, "params_not_object", None, None, {})
      ELSE IF ~TruthyId(payload.server) \/ ~TruthyId(payload.tool)
        THEN Parsed(FALSE, "missing_server_or_tool", None, None, {})
      ELSE Parsed(TRUE, None, payload.server, payload.tool, params)

\* (server_id, tool_name, json.dumps(params, sort_keys=True)): the dict as a
\* set of pairs is its own canonical form
CallSignature(server, tool, params) == << server, tool, params >>

----------------------------------------------------------------------------
(* Loop detection and iteration policy: registry.py *)

\* ModelRegistry._get_tool_iteration_config: the policy of the CURRENT model
GetToolIterationConfig(cur, defaults) ==
  IF Models(cur).tool_iteration_override # << >>
    THEN Models(cur).tool_iteration_override[1]
  ELSE IF defaults # << >> THEN defaults[1]
  ELSE BuiltinToolIteration

\* history[-window:] if len(history) >= window else history
RecentCalls(history, window) ==
  IF Len(history) >= window
  THEN IF window > 0
         THEN SubSeq(history, Len(history) - window + 1, Len(history))
         ELSE SubSeq(history, 1 - window, Len(history))
  ELSE history

\* ModelRegistry._is_loop_detected
IsLoopDetected(history, call_signature, config) ==
  IF ~config.detect_loops THEN FALSE
  ELSE LET recent == RecentCalls(history, config.loop_window)
           matches == { i \in 1 .. Len(recent) : recent[i] = call_signature }
       IN Cardinality(matches) >= 2

ClearToolCallHistoryNoop(history) == history

\* ModelRegistry.clear_tool_call_history
ClearToolCallHistory(history) == << >>

\* ModelRegistry._provider_supports_function_calls: the value returned
ProviderSupportsFunctionCalls(cache, key) ==
  IF cache[key] # None THEN cache[key] = "yes" ELSE key # "openrouter"

CacheAfterReprobe(cache, key) ==
  [cache EXCEPT ![key] = IF key # "openrouter" THEN "yes" ELSE "no"]

\* ... and the cache it leaves behind
CacheAfterLookup(cache, key) ==
  IF cache[key] # None THEN cache
  ELSE [cache EXCEPT ![key] = IF key # "openrouter" THEN "yes" ELSE "no"]

----------------------------------------------------------------------------
(* Collaborators: what the provider, the tool servers and the callers do *)

\* outcomes of McpClient.list_tools for one server
ListOutcomes ==
  { [ok |-> FALSE, tools |-> << >>], [ok |-> TRUE, tools |-> << "search" >>] }

\* the exceptions litellm.completion may raise: class and str(exc)
Exc(exc_class, message) == [exc_class |-> exc_class, message |-> message]
ProviderExceptions ==
  { Exc("BadRequestError", << "tools", "unsupported" >>),
    Exc("AttributeError", << "no", "attribute" >>),
    Exc("Timeout", << " ", "timed", "out", "\n" >>),
    Exc("Timeout", << >>) }

\* structured tool calls of a response: [id, name, arguments]
ToolCall(id, name, arguments) == [id |-> id, name |-> name, arguments |-> arguments]

\* message.tool_calls of one response
ToolCallLists ==
  { << ToolCall("call_1", ToolBridgeName,
         << "{", "server:notes", "tool:search", "params:", "{", "query:x", "}", "}" >>) >>,
    << ToolCall("call_1", ToolBridgeName, << "{", "server:notes", "tool:search", "}" >>),
       ToolCall("call_2", ToolBridgeName,
         << "{", "server:docs", "tool:fetch", "params:null", "}" >>) >>,
    << ToolCall("call_1", ToolBridgeName, << "{", "server:notes", "}" >>) >>,
    << ToolCall("call_1", "other_tool", << "{", "server:notes", "tool:search", "}" >>) >> }

\* message.content of one response without tool calls
Contents ==
  { NoneText, << >>, << " ", "\n" >>, << "done" >>,
    << "CALL_MCP_TOOL", " ", "{", "server:notes", "tool:search", "}" >>,
    << "ok", " ", "call_mcp_tool", "{", "server:notes", "tool:search", "params:",
       "{", "query:x", "}", "}", " ", "thanks" >>,
    << "CALL_MCP_TOOL", " ", "{", "server:notes", "tool:search" >> }

\* the fragments of a streamed response
TextChunk(content) == [kind |-> "text", content |-> content]
ToolChunk == [kind |-> "tool", content |-> << >>]
NoDelta == [kind |-> "nodelta", content |-> << >>]

\* the fragment sequences a provider may stream
ChunkStreams ==
  { << TextChunk(<< "Hel" >>), TextChunk(<< "lo" >>) >>,
    << TextChunk(<< " " >>), NoDelta, TextChunk(<< >>) >>,
    << TextChunk(<< "Hel" >>), ToolChunk, TextChunk(<< "lo" >>) >>,
    << ToolChunk >> }

\* system prompts callers pass
SystemPrompts == { NoneText, << " ", "Be", "terse", "\n" >> }

\* What surrounds the registry in one specification: how many top-level
\* operations the callers start, the arguments they draw from, and the
\* behaviours of the provider and of the tool servers.

\* one completion: every argument, every behaviour
LoopScope ==
  [max_ops |-> 1,
   prompts |-> { << "Hello" >> },
   model_ids |-> { None, "router", "orphan", "nokey", "ghost" },
   clients |-> BOOLEAN,
   system_prompts |-> SystemPrompts,
   max_attempts |-> {},
   list_outcomes |-> ListOutcomes,
   exceptions |-> ProviderExceptions,
   tool_call_lists |-> ToolCallLists,
   contents |-> Contents,
   streams |-> ChunkStreams]

\* the planning REPL with streaming enabled: its own client, no model id,
\* the selected system prompt or none
ReplScope ==
  [max_ops |-> 1,
   prompts |-> { << "Hello" >> },
   model_ids |-> { None },
   clients |-> { TRUE },
   system_prompts |-> SystemPrompts,
   max_attempts |-> {},
   list_outcomes |-> ListOutcomes,
   exceptions |-> ProviderExceptions,
   tool_call_lists |-> ToolCallLists,
   contents |-> Contents,
   streams |-> ChunkStreams]

\* two threads, each calling complete once on the same registry
ThreadScope ==
  [max_ops |-> 2,
   prompts |-> { << "Hello" >> },
   model_ids |-> { None },
   clients |-> { TRUE },
   system_prompts |-> { NoneText },
   max_attempts |-> {},
   list_outcomes |-> { o \in ListOutcomes : o.ok },
   exceptions |-> { e \in ProviderExceptions : e.exc_class = "Timeout" /\ e.message = << >> },
   tool_call_lists |-> { l \in ToolCallLists :
                           l[1].name = ToolBridgeName /\ ParseMcpToolCall(l[1]).ok },
   contents |-> { << "done" >> },
   streams |-> {}]

\* several operations, one after the other, on one registry
SeqScope ==
  [max_ops |-> MaxOps,
   prompts |-> { << "Hello" >> },
   model_ids |-> { None, "", "router", "ghost" },
   clients |-> { TRUE },
   system_prompts |-> { NoneText },
   max_attempts |-> {},
   list_outcomes |-> { o \in ListOutcomes : o.ok },
   exceptions |-> { e \in ProviderExceptions : e.exc_class # "AttributeError" },
   tool_call_lists |-> { l \in ToolCallLists :
                           Len(l) = 1 /\ l[1].name = ToolBridgeName },
   contents |-> { << >>, << "done" >>,
                  << "CALL_MCP_TOOL", " ", "{", "server:notes", "tool:search", "}" >> },
   streams |-> { st \in ChunkStreams : Len(st) = 2 }]

\* one call of the retry wrapper
RetryScope ==
  [max_ops |-> 1,
   prompts |-> { << "Plan", " ", "chapter" >> },
   model_ids |-> { None, "router", "ghost" },
   clients |-> { TRUE },
   system_prompts |-> { NoneText },
   max_attempts |-> 0 .. MaxAttempts,
   list_outcomes |-> { o \in ListOutcomes : o.ok },
   exceptions |-> { e \in ProviderExceptions : e.exc_class = "Timeout" },
   tool_call_lists |-> { l \in ToolCallLists :
                           /\ Len(l) = 1 /\ l[1].name = ToolBridgeName
                           /\ ParseMcpToolCall(l[1]).ok },
   contents |-> { << >>, << "done" >> },
   streams |-> {}]

\* what list_tools may give for one server: an exception, no tool, tools,
\* tools one of which has no name
CatalogListOutcomes ==
  ListOutcomes \cup { [ok |-> TRUE, tools |-> << >>],
                      [ok |-> TRUE, tools |-> << "search", "", "fetch" >>] }

\* one completion over one to three tool servers
CatalogScope ==
  [max_ops |-> 1,
   prompts |-> { << "Hello" >> },
   model_ids |-> { None },
   clients |-> BOOLEAN,
   system_prompts |-> SystemPrompts,
   max_attempts |-> {},
   list_outcomes |-> CatalogListOutcomes,
   exceptions |-> { e \in ProviderExceptions : e.exc_class = "BadRequestError" },
   tool_call_lists |-> { l \in ToolCallLists :
                           /\ Len(l) = 1 /\ l[1].name = ToolBridgeName
                           /\ ParseMcpToolCall(l[1]).ok },
   contents |-> { << "done" >> },
   streams |-> {}]

\* the JSON texts that hold a non-empty server, a non-empty tool and a
\* params object, and nothing else
TripleTexts ==
  { e.text : e \in { j \in JsonTexts :
      /\ j.doc.kind = "object" /\ TruthyId(j.doc.server) /\ TruthyId(j.doc.tool)
      /\ j.doc.pk = "obj" /\ j.doc.extra = {} } }

\* the textual protocol: the marker, then the JSON object
TextualCall(json) == << "CALL_MCP_TOOL", " " >> \o json

\* one completion whose provider asks for tools with every such JSON text,
\* as structured arguments and after the textual marker
ParseScope ==
  [max_ops |-> 1,
   prompts |-> { << "Hello" >> },
   model_ids |-> { None, "router" },
   clients |-> { TRUE },
   system_prompts |-> { NoneText },
   max_attempts |-> {},
   list_outcomes |-> { o \in ListOutcomes : o.ok },
   exceptions |-> { e \in ProviderExceptions : e.exc_class = "BadRequestError" },
   tool_call_lists |-> { << ToolCall("call_1", ToolBridgeName, t) >> : t \in TripleTexts },
   contents |-> { TextualCall(t) : t \in TripleTexts },
   streams |-> {}]

\* one completion whose provider sends structured tool calls with every
\* kind of arguments: each JSON text, no arguments, text that is no JSON,
\* under the tool-bridge name and under another name
StructuredScope ==
  [max_ops |-> 1,
   prompts |-> { << "Hello" >> },
   model_ids |-> { None },
   clients |-> { TRUE },
   system_prompts |-> { NoneText },
   max_attempts |-> {},
   list_outcomes |-> { o \in ListOutcomes : o.ok },
   exceptions |-> { e \in ProviderExceptions : e.exc_class = "BadRequestError" },
   tool_call_lists |->
     { << ToolCall("call_1", name, arguments) >> :
         name \in { ToolBridgeName, "other_tool" },
         arguments \in { e.text : e \in JsonTexts }
                         \cup { << >>, NoneText, << "{", "server:notes" >> } },
   contents |-> { << "done" >> },
   streams |-> {}]

\* completions that name a model or leave it to the current one, between
\* changes of the current model; one of the models overrides the policy
PolicyScope ==
  [max_ops |-> 2,
   prompts |-> { << "Hello" >> },
   model_ids |-> { None, "writer", "strict" },
   clients |-> { TRUE },
   system_prompts |-> { NoneText },
   max_attempts |-> {},
   list_outcomes |-> { o \in ListOutcomes : o.ok },
   exceptions |-> { e \in ProviderExceptions : e.exc_class = "Timeout" /\ e.message = << >> },
   tool_call_lists |-> { l \in ToolCallLists :
                           /\ Len(l) = 1 /\ l[1].name = ToolBridgeName
                           /\ ParseMcpToolCall(l[1]).ok },
   contents |-> { << "done" >> },
   streams |-> {}]

\* the iteration policies that leave room for a third identical call
DetectConfigs ==
  [max_iterations : { BuiltinMaxIterations }, detect_loops : BOOLEAN,
   loop_window : 1 .. MaxWindow]

\* one completion whose provider keeps asking for tools, on either path
DetectScope ==
  [max_ops |-> 1,
   prompts |-> { << "Hello" >> },
   model_ids |-> { None, "router" },
   clients |-> { TRUE },
   system_prompts |-> { NoneText },
   max_attempts |-> {},
   list_outcomes |-> { o \in ListOutcomes : o.ok },
   exceptions |-> {},
   tool_call_lists |-> { l \in ToolCallLists :
                           l[1].name = ToolBridgeName /\ ParseMcpToolCall(l[1]).ok },
   contents |-> { << "done" >>,
                  << "CALL_MCP_TOOL", " ", "{", "server:notes", "tool:search", "}" >> },
   streams |-> {}]

\* the textual request, whole and as the fragments of a stream
TextualRequest ==
  << "CALL_MCP_TOOL", " ", "{", "server:notes", "tool:search", "}" >>

\* one completion, streamed or not, on a provider with or without function
\* calling, whose responses may hold a textual tool request
StreamedScope ==
  [max_ops |-> 1,
   prompts |-> { << "Hello" >> },
   model_ids |-> { None, "router" },
   clients |-> { TRUE },
   system_prompts |-> { NoneText },
   max_attempts |-> {},
   list_outcomes |-> { o \in ListOutcomes : o.ok },
   exceptions |-> {},
   tool_call_lists |-> { l \in ToolCallLists :
                           /\ Len(l) = 1 /\ l[1].name = ToolBridgeName
                           /\ ParseMcpToolCall(l[1]).ok },
   contents |-> { << "done" >>, TextualRequest },
   streams |-> { << TextChunk(<< "done" >>) >>,
                 << TextChunk(SubSeq(TextualRequest, 1, 3)),
                    TextChunk(SubSeq(TextualRequest, 4, 6)) >>,
                 << TextChunk(<< "Hel" >>), ToolChunk >> }]

----------------------------------------------------------------------------
(* Outcomes and frames *)

Returned(text) ==
  [kind |-> "text", text |-> text, error |-> None, message |-> << >>,
   exc_class |-> None]

\* an exception: error is its kind in the model, message its str()
Raised(error, message, exc_class) ==
  [kind |-> "error", text |-> << >>, error |-> error, message |-> message,
   exc_class |-> exc_class]

NoOutcome == [kind |-> "none", text |-> << >>, error |-> None, message |-> << >>,
              exc_class |-> None]

IdleFrame ==
  \* model_id is the argument; envval what os.environ gave, None if not read
  [mode |-> None, caller |-> None, model_id |-> None, envval |-> None,
   model |-> None, ptype |-> None,
   prompt |-> << >>, mcp_client |-> FALSE, on_chunk |-> FALSE,
   messages |-> << >>, supports_functions |-> FALSE, has_mcp_tools |-> FALSE,
   tools_payload |-> << >>, tool_metadata |-> << >>, attempt |-> 0,
   max_tool_iterations |-> 0, detect_loops |-> FALSE, fallback |-> FALSE]

IdleWrapper ==
  [attempt |-> 0, base_prompt |-> << >>, current_prompt |-> << >>,
   max_attempts |-> 0, model_id |-> None, mcp_client |-> FALSE,
   system_prompt |-> NoneText]

Msg(role, content, tool_calls, tool_call_id) ==
  [role |-> role, content |-> content, tool_calls |-> tool_calls,
   tool_call_id |-> tool_call_id]

\* the REPL before run(): rpc is "input" (waiting for a line), "turn" (a
\* completion runs), "closed" (the loop ended on the user's exit) or
\* "crashed" (an exception left run()); builder_takes_queries tells whether
\* the build_planning_prompt bound in the REPL module accepts the
\* mcp_query_history keyword (the tests bind one that does)
NoRepl == [rpc |-> "input", turn_index |-> 0, history |-> << >>, log |-> << >>,
           streaming |-> FALSE, builder_takes_queries |-> FALSE,
           history_slice |-> << >>]

\* no memory store constructed
NoMemory == [entries |-> << >>, file |-> << >>, last |-> [op |-> None, arg |-> << >>,
                                                          result |-> None]]

\* merge_generation_params not called
NoMerge == [model_defaults |-> {}, params |-> {}, task_params |-> << >>,
            called |-> FALSE, result |-> {}, after |-> << >>]

\* no tools/call answered yet
NoReply == [isError |-> None, items |-> << >>, text |-> << >>]

\* a thread that runs no completion
IdleCompletion ==
  [pc |-> "idle", frame |-> IdleFrame, outcome |-> NoOutcome, requests |-> << >>,
   dispatched |-> << >>, listed |-> << >>, chunks |-> << >>]

InitRegistry ==
  /\ current_id = DefaultModel
  /\ provider_supports_functions = [t \in ProviderTypes |-> None]
  /\ tool_events = << >>
  /\ tool_call_history = << >>
  /\ pc = "idle"
  /\ frame = IdleFrame
  /\ outcome = NoOutcome
  /\ wpc = "idle"
  /\ wframe = IdleWrapper
  /\ woutcome = NoOutcome
  /\ requests = << >>
  /\ dispatched = << >>
  /\ listed = << >>
  /\ chunks = << >>
  /\ prompts = << >>
  /\ failures = << >>
  /\ ops = 0
  /\ suspended = IdleCompletion
  /\ reply = NoReply
  /\ merge = NoMerge
  /\ memory = NoMemory
  /\ repl = NoRepl

\* every combination of process-wide defaults, model parameters and
\* per-call overrides (absent, empty or given)
InitParams ==
  /\ tool_iteration_defaults = << >>
  /\ mcp_servers = << >>
  /\ current_id = DefaultModel
  /\ provider_supports_functions = [t \in ProviderTypes |-> None]
  /\ tool_events = << >>
  /\ tool_call_history = << >>
  /\ pc = "idle" /\ frame = IdleFrame /\ outcome = NoOutcome
  /\ wpc = "idle" /\ wframe = IdleWrapper /\ woutcome = NoOutcome
  /\ requests = << >> /\ dispatched = << >> /\ listed = << >> /\ chunks = << >>
  /\ prompts = << >> /\ failures = << >> /\ ops = 0
  /\ suspended = IdleCompletion
  /\ reply = NoReply
  /\ memory = NoMemory
  /\ repl = NoRepl
  /\ \E model_defaults \in ParamDicts, params \in ParamDicts,
        task_params \in { << >> } \cup { << d >> : d \in ParamDicts } :
       merge = [model_defaults |-> model_defaults, params |-> params,
                task_params |-> task_params, called |-> FALSE, result |-> {},
                after |-> << >>]

\* a store constructed on a path: no file there, a file that does not
\* parse, or the file an earlier store wrote
InitMemory ==
  /\ tool_iteration_defaults = << >>
  /\ mcp_servers = << >>
  /\ current_id = DefaultModel
  /\ provider_supports_functions = [t \in ProviderTypes |-> None]
  /\ tool_events = << >>
  /\ tool_call_history = << >>
  /\ pc = "idle" /\ frame = IdleFrame /\ outcome = NoOutcome
  /\ wpc = "idle" /\ wframe = IdleWrapper /\ woutcome = NoOutcome
  /\ requests = << >> /\ dispatched = << >> /\ listed = << >> /\ chunks = << >>
  /\ prompts = << >> /\ failures = << >> /\ ops = 0
  /\ suspended = IdleCompletion
  /\ reply = NoReply
  /\ merge = NoMerge
  /\ repl = NoRepl
  /\ \E file \in { MissingFile, CorruptFile,
                     Persist(<< ManualMemoryEntry("e5f6a7b8", NoneText, << "Old" >>, 1) >>) } :
       memory = [NoMemory EXCEPT !.entries = Load(file), !.file = file]

\* a REPL session, with the prompt builder of prompts/planning.py or with
\* one that takes the mcp_query_history keyword
InitTurns ==
  /\ tool_iteration_defaults = << >>
  /\ mcp_servers = << "notes" >>
  /\ current_id = DefaultModel
  /\ provider_supports_functions = [t \in ProviderTypes |-> None]
  /\ tool_events = << >>
  /\ tool_call_history = << >>
  /\ pc = "idle" /\ frame = IdleFrame /\ outcome = NoOutcome
  /\ wpc = "idle" /\ wframe = IdleWrapper /\ woutcome = NoOutcome
  /\ requests = << >> /\ dispatched = << >> /\ listed = << >> /\ chunks = << >>
  /\ prompts = << >> /\ failures = << >> /\ ops = 0
  /\ suspended = IdleCompletion
  /\ reply = NoReply
  /\ merge = NoMerge
  /\ memory = NoMemory
  /\ \E builder_takes_queries \in BOOLEAN :
       repl = [NoRepl EXCEPT !.builder_takes_queries = builder_takes_queries]

\* one configuration with tools and no tool_iteration_defaults: the field
\* defaults of ToolIterationConfig apply unless the current model overrides
Init ==
  /\ tool_iteration_defaults = << >>
  /\ mcp_servers = << "notes" >>
  /\ InitRegistry

\* every iteration policy within the bounds, with and without tool servers
InitLoop ==
  /\ tool_iteration_defaults \in { << >> } \cup { << c >> : c \in ToolIterationConfigs }
  /\ mcp_servers \in { << >>, << "notes" >> }
  /\ InitRegistry

\* one tool server, loop detection on or off, three rounds allowed
InitDetect ==
  /\ tool_iteration_defaults \in { << c >> : c \in DetectConfigs }
  /\ mcp_servers = << "notes" >>
  /\ InitRegistry

\* one to three tool servers, the built-in iteration policy
InitCatalog ==
  /\ tool_iteration_defaults = << >>
  /\ mcp_servers \in { << "notes" >>, << "notes", "docs" >>,
                       << "docs", "wiki", "notes" >> }
  /\ InitRegistry

----------------------------------------------------------------------------
(* Entry of complete / complete_streaming: registry.py 71-116, 236-271 *)

DefaultSystemContent == << "You are a helpful writing assistant." >>

\* the entries kept from what list_tools gave: the tools that have a name
NamedTools(tools) == SelectSeq(tools, LAMBDA name : TruthyId(name))

\* a collector whose try block spans the loop over the servers
CollectUntilFailure(servers, listing) ==
  [i \in 1 .. Len(servers) |->
     [server |-> servers[i],
      entries |-> IF \A j \in 1 .. i : listing[j].ok
                  THEN NamedTools(listing[i].tools) ELSE << >>]]

\* ModelRegistry._collect_mcp_tool_metadata, listing[i] being what
\* list_tools gives for the i-th configured server
CollectMcpToolMetadata(servers, listing) ==
  [i \in 1 .. Len(servers) |->
     [server |-> servers[i],
      entries |-> IF listing[i].ok THEN NamedTools(listing[i].tools) ELSE << >>]]

\* the calls of list_tools made by one collection, with their outcomes
ListingLog(servers, listing) ==
  [i \in 1 .. Len(servers) |->
     [server |-> servers[i], ok |-> listing[i].ok, tools |-> listing[i].tools]]

\* the lines _render_tool_inventory writes for one server: the heading and
\* one line per tool
InventoryLines(entry) ==
  << entry.server, ":" >> \o
  [k \in 1 .. 2 * Len(entry.entries) |->
     IF k % 2 = 1 THEN "-" ELSE entry.entries[k \div 2]]

NoInventory == << "No detailed tool metadata is available." >>

\* ModelRegistry._render_tool_inventory: the two return statements stand
\* inside the loop over the servers, after the lines of the first server
\* that has tools; when the loop ends without them the function returns None
RenderToolInventory(tool_metadata) ==
  LET filled == { i \in 1 .. Len(tool_metadata) : tool_metadata[i].entries # << >> }
  IN IF filled = {} THEN NoneText
     ELSE InventoryLines(tool_metadata[CHOOSE i \in filled : \A j \in filled : i <= j])

\* ModelRegistry._build_mcp_tool_instruction
BuildMcpToolInstruction(servers, tool_metadata) ==
  << "TOOL_INSTRUCTION" >> \o servers
    \o << "Available tools:" >> \o RenderToolInventory(tool_metadata)

\* ModelRegistry._build_mcp_tool_definition
BuildMcpToolDefinition(servers, tool_metadata) ==
  LET names == UNION { { tool_metadata[i].entries[j] :
                          j \in 1 .. Len(tool_metadata[i].entries) } :
                        i \in 1 .. Len(tool_metadata) }
  IN [name |-> ToolBridgeName,
      server_enum |-> IF servers # << >> THEN servers
                      ELSE [i \in 1 .. Len(tool_metadata) |-> tool_metadata[i].server],
      tool_enum |-> IF names # {} THEN names ELSE { "<tool>" },
      inventory |-> RenderToolInventory(tool_metadata)]

\* whether _resolve_api_key reads os.environ
ReadsEnviron(provider) ==
  ~TruthyId(provider.api_key) /\ TruthyId(provider.api_key_env)

ResolveApiKeyAnyValue(provider, envval) ==
  IF TruthyId(provider.api_key) THEN provider.api_key
  ELSE IF TruthyId(provider.api_key_env) /\ envval # None THEN envval
  ELSE None

\* ModelRegistry._resolve_api_key
ResolveApiKey(provider, envval) ==
  IF TruthyId(provider.api_key) THEN provider.api_key
  ELSE IF TruthyId(provider.api_key_env) /\ TruthyId(envval) THEN envval
  ELSE None

\* an exception leaves complete before its loop: nothing of the registry changed
RaiseAtEntry(mode, caller, model_id, envval, out) ==
  /\ pc' = "raised"
  /\ outcome' = out
  /\ frame' = [IdleFrame EXCEPT !.mode = mode, !.caller = caller,
                                !.model_id = model_id, !.envval = envval]
  /\ listed' = << >>
  /\ UNCHANGED << provider_supports_functions, tool_call_history >>

Enter(mode, caller, prompt, model_id, mcp_client, system_prompt, on_chunk, envval, listing) ==
  /\ requests' = << >>
  /\ dispatched' = << >>
  /\ chunks' = << >>
  /\ IF TruthyId(model_id) /\ model_id \notin ModelIds
       THEN RaiseAtEntry(mode, caller, model_id, None,
                         Raised("unknown_model", << model_id >>, "KeyError"))
     ELSE LET mid == IF TruthyId(model_id) THEN model_id ELSE current_id
              model == Models(mid)
          IN
       IF model.provider \notin ProviderIds
         THEN RaiseAtEntry(mode, caller, model_id, None,
                Raised("unknown_provider", << "Unknown provider" >>, "RuntimeError"))
       ELSE IF ResolveApiKey(Providers(model.provider), envval) = None
         THEN RaiseAtEntry(mode, caller, model_id,
                IF ReadsEnviron(Providers(model.provider)) THEN envval ELSE None,
                Raised("missing_credential", << "No API key configured for provider" >>,
                       "RuntimeError"))
       ELSE
         LET provider == Providers(model.provider)
             has_mcp_tools == mcp_servers # << >> /\ mcp_client
             collect == ~Truthy(system_prompt) /\ has_mcp_tools
             tool_metadata == IF collect
                              THEN CollectMcpToolMetadata(mcp_servers, listing)
                              ELSE << >>
             system_content ==
               IF Truthy(system_prompt) THEN Strip(system_prompt)
               ELSE IF collect THEN BuildMcpToolInstruction(mcp_servers, tool_metadata)
               ELSE IF Truthy(model.system_prompt) THEN Strip(model.system_prompt)
               ELSE DefaultSystemContent
             messages ==
               (IF system_content # << >>
                  THEN << Msg("system", system_content, << >>, None) >> ELSE << >>)
               \o << Msg("user", prompt, << >>, None) >>
             supports_functions ==
               ProviderSupportsFunctionCalls(provider_supports_functions, provider.type)
             tool_config == GetToolIterationConfig(current_id, tool_iteration_defaults)
         IN
         /\ pc' = "awaiting"
         /\ outcome' = NoOutcome
         /\ listed' = IF collect THEN ListingLog(mcp_servers, listing) ELSE << >>
         /\ provider_supports_functions' =
              CacheAfterLookup(provider_supports_functions, provider.type)
         /\ tool_call_history' = ClearToolCallHistory(tool_call_history)
         /\ frame' =
              [mode |-> mode, caller |-> caller, model_id |-> model_id,
               envval |-> IF ReadsEnviron(provider) THEN envval ELSE None,
               model |-> mid, ptype |-> provider.type,
               prompt |-> prompt, mcp_client |-> mcp_client, on_chunk |-> on_chunk,
               messages |-> messages, supports_functions |-> supports_functions,
               has_mcp_tools |-> has_mcp_tools,
               tools_payload |->
                 IF supports_functions /\ has_mcp_tools
                 THEN << BuildMcpToolDefinition(mcp_servers, tool_metadata) >> ELSE << >>,
               tool_metadata |-> tool_metadata, attempt |-> 0,
               max_tool_iterations |-> tool_config.max_iterations,
               detect_loops |-> tool_config.detect_loops, fallback |-> FALSE]

Listings(scope) == [1 .. Len(mcp_servers) -> scope.list_outcomes]

\* a caller other than the wrapper calls ModelRegistry.complete
CallComplete(scope) ==
  /\ pc = "idle" /\ wpc = "idle" /\ ops < scope.max_ops
  /\ ops' = ops + 1
  /\ \E prompt \in scope.prompts, model_id \in scope.model_ids,
        mcp_client \in scope.clients, system_prompt \in scope.system_prompts,
        envval \in EnvValues, listing \in Listings(scope) :
       Enter("complete", "direct", prompt, model_id, mcp_client, system_prompt,
             FALSE, envval, listing)
  /\ UNCHANGED << cfgVars, otherVars, current_id, tool_events, wrapVars >>

\* a caller calls ModelRegistry.complete_streaming
CallCompleteStreaming(scope) ==
  /\ pc = "idle" /\ wpc = "idle" /\ ops < scope.max_ops
  /\ ops' = ops + 1
  /\ \E prompt \in scope.prompts, model_id \in scope.model_ids,
        mcp_client \in scope.clients, system_prompt \in scope.system_prompts,
        on_chunk \in BOOLEAN, envval \in EnvValues, listing \in Listings(scope) :
       Enter("streaming", "direct", prompt, model_id, mcp_client, system_prompt,
             on_chunk, envval, listing)
  /\ UNCHANGED << cfgVars, otherVars, current_id, tool_events, wrapVars >>

----------------------------------------------------------------------------
(* One round of the loop: registry.py 117-207, 273-412 *)

\* the request litellm.completion receives in this round, with what came
\* back: response is "exception" (exc_class tells which), "tool_calls",
\* "tool_text" (text taken as a textual tool call), "final_text" (text
\* accepted as the final answer; text holds both) or "tool_fragment" (a stream
\* cut short by a tool-call fragment); call is the tool call the response
\* asks for, as parsed; chunks is what a streamed response was made of,
\* tool_calls the structured tool calls it carried
Request(stream, response, exc_class, text, call) ==
  [tools |-> frame.tools_payload, stream |-> stream, attempt |-> frame.attempt,
   messages |-> frame.messages, supports_functions |-> frame.supports_functions,
   response |-> response, exc_class |-> exc_class, text |-> text, call |-> call,
   chunks |-> << >>, tool_calls |-> << >>]

NoCall == Parsed(FALSE, None, None, None, {})

\* a round that streams whatever the counter
UsesStreamFromStart == frame.mode = "streaming" /\ frame.on_chunk /\ ~frame.fallback

\* a round that streams again although its stream was aborted
UsesStreamAgain == frame.mode = "streaming" /\ frame.attempt > 0 /\ frame.on_chunk

\* is_final_likely and on_chunk, unless the stream of this round was aborted
UsesStream == frame.mode = "streaming" /\ frame.attempt > 0 /\ frame.on_chunk
                /\ ~frame.fallback

\* the exception leaves the loop
Raise(out) ==
  /\ pc' = "raised"
  /\ outcome' = out

\* ModelRegistry._build_assistant_tool_message
BuildAssistantToolMessage(content, tool_calls) ==
  Msg("assistant", content, [i \in 1 .. Len(tool_calls) |-> tool_calls[i].id], None)

\* ModelRegistry._render_mcp_tool_result
RenderMcpToolResult(server, tool, tool_call) ==
  Msg("tool", << "RESULT", server, tool >>, << >>, tool_call.id)

\* ModelRegistry._render_textual_tool_message
RenderTextualToolMessage(server, tool) ==
  Msg("assistant", << "TOOL_RESULT", "call_mcp_tool", server, tool >>, << >>, None)

\* the locals after a capability downgrade: 135-136, 341-342
DowngradedKeepingTools(f) == [f EXCEPT !.fallback = FALSE]

Downgraded(f) ==
  [f EXCEPT !.supports_functions = FALSE, !.tools_payload = << >>,
            !.fallback = FALSE]

\* the except clauses around litellm.completion: 124-138, 330-344
HandleProviderException(exc_class, message) ==
  IF exc_class = "AttributeError"
    THEN /\ Raise(Raised("provider_error", << "litellm BadRequest: " >> \o message,
                         "RuntimeError"))
         /\ UNCHANGED << frame, provider_supports_functions >>
  ELSE IF frame.supports_functions /\ exc_class = "BadRequestError"
    THEN /\ provider_supports_functions' =
              [provider_supports_functions EXCEPT ![frame.ptype] = "no"]
         /\ frame' = Downgraded(frame)
         /\ UNCHANGED << pc, outcome >>
  ELSE /\ Raise(Raised("provider_error", message, exc_class))
       /\ UNCHANGED << frame, provider_supports_functions >>

\* litellm.completion raises
ProviderRaises(scope) ==
  /\ pc = "awaiting"
  /\ ~UsesStream
  /\ \E exc \in scope.exceptions :
       /\ requests' = Append(requests, Request(FALSE, "exception", exc.exc_class, << >>, NoCall))
       /\ HandleProviderException(exc.exc_class, exc.message)
  /\ UNCHANGED << cfgVars, otherVars, current_id, tool_events, tool_call_history, wrapVars,
                  dispatched, listed, chunks, ops >>

\* the two messages a tool round leaves in the conversation: 165-166, 188-189
AppendToolRoundResultFirst(messages, assistant_msg, result_msg) ==
  messages \o << result_msg, assistant_msg >>

AppendToolRound(messages, assistant_msg, result_msg) ==
  messages \o << assistant_msg, result_msg >>

\* `attempt += 1`: 168, 191, 374, 397
NextAttempt(attempt) == attempt + 1

\* a tool-handling branch that books the round before it calls the executor
DispatchBookingFirst(server, tool, params, assistant_msg, result_msg, exec_ok, limit_after) ==
  LET call_signature == CallSignature(server, tool, params)
      config == GetToolIterationConfig(current_id, tool_iteration_defaults)
  IN
  IF frame.detect_loops /\ IsLoopDetected(tool_call_history, call_signature, config)
    THEN /\ Raise(Raised("loop_detected", << "Tool call loop detected", server, tool >>,
                         "RuntimeError"))
         /\ UNCHANGED << frame, tool_call_history, dispatched, tool_events >>
  ELSE
    /\ tool_call_history' = Append(tool_call_history, call_signature)
    /\ dispatched' = Append(dispatched, call_signature)
    /\ frame' = [frame EXCEPT
                   !.messages = AppendToolRound(frame.messages, assistant_msg, result_msg),
                   !.attempt = NextAttempt(frame.attempt),
                   !.fallback = FALSE]
    /\ IF ~exec_ok
         THEN /\ Raise(Raised("executor_error", << "tool failed" >>, "McpError"))
              /\ UNCHANGED tool_events
       ELSE
         /\ tool_events' = Append(tool_events, call_signature)
         /\ IF limit_after /\ NextAttempt(frame.attempt) >= frame.max_tool_iterations
              THEN Raise(Raised("iteration_limit",
                                << "LLM exceeded maximum tool iterations", "textual" >>,
                                "RuntimeError"))
              ELSE UNCHANGED << pc, outcome >>

\* a loop check that does not ask whether detection is enabled
LoopCheckAlways(detect_loops, history, call_signature, config) ==
  IsLoopDetected(history, call_signature, [config EXCEPT !.detect_loops = TRUE])

\* `if detect_loops and self._is_loop_detected(call_signature)`: 156, 180
LoopCheck(detect_loops, history, call_signature, config) ==
  detect_loops /\ IsLoopDetected(history, call_signature, config)

\* the tool-handling branch shared by the structured and the textual path:
\* loop check, history, dispatch, the two messages, the event, the counter
Dispatch(server, tool, params, assistant_msg, result_msg, exec_ok, limit_after) ==
  LET call_signature == CallSignature(server, tool, params)
      config == GetToolIterationConfig(current_id, tool_iteration_defaults)
  IN
  IF LoopCheck(frame.detect_loops, tool_call_history, call_signature, config)
    THEN /\ Raise(Raised("loop_detected", << "Tool call loop detected", server, tool >>,
                         "RuntimeError"))
         /\ UNCHANGED << frame, tool_call_history, dispatched, tool_events >>
  ELSE
    /\ tool_call_history' = Append(tool_call_history, call_signature)
    /\ dispatched' = Append(dispatched, call_signature)
    /\ IF ~exec_ok
         THEN /\ Raise(Raised("executor_error", << "tool failed" >>, "McpError"))
              /\ UNCHANGED << frame, tool_events >>
       ELSE
         /\ tool_events' = Append(tool_events, call_signature)
         /\ frame' = [frame EXCEPT
                        !.messages = AppendToolRound(frame.messages, assistant_msg,
                                                     result_msg),
                        !.attempt = NextAttempt(frame.attempt),
                        !.fallback = FALSE]
         /\ IF limit_after /\ NextAttempt(frame.attempt) >= frame.max_tool_iterations
              THEN Raise(Raised("iteration_limit",
                                << "LLM exceeded maximum tool iterations", "textual" >>,
                                "RuntimeError"))
              ELSE UNCHANGED << pc, outcome >>

\* a branch that handles the entry the response lists last
LastToolCall(tool_calls) == tool_calls[Len(tool_calls)]

\* `tool_call = tool_calls[0]`: the one entry of the response that is handled
FirstToolCall(tool_calls) == tool_calls[1]

\* the response carries structured tool calls: 142-169, 350-375
ReceiveToolCalls(scope) ==
  /\ pc = "awaiting"
  /\ ~UsesStream
  /\ \E tool_calls \in scope.tool_call_lists, exec_ok \in BOOLEAN :
       LET parsed == ParseMcpToolCall(FirstToolCall(tool_calls)) IN
       /\ requests' = Append(requests,
            [Request(FALSE, "tool_calls", None, << >>, parsed)
             EXCEPT !.tool_calls = tool_calls])
       /\ IF ~frame.mcp_client
            THEN /\ Raise(Raised("no_client", << "no client is configured" >>, "RuntimeError"))
                 /\ UNCHANGED << frame, tool_call_history, dispatched, tool_events >>
          ELSE IF frame.attempt >= frame.max_tool_iterations
            THEN /\ Raise(Raised("iteration_limit",
                                 << "LLM exceeded maximum tool iterations" >>, "RuntimeError"))
                 /\ UNCHANGED << frame, tool_call_history, dispatched, tool_events >>
          ELSE IF ~parsed.ok
            THEN /\ Raise(Raised("malformed_tool_call", << parsed.error >>, "RuntimeError"))
                 /\ UNCHANGED << frame, tool_call_history, dispatched, tool_events >>
          ELSE Dispatch(parsed.server, parsed.tool, parsed.params,
                        BuildAssistantToolMessage(NoneText, tool_calls),
                        RenderMcpToolResult(parsed.server, parsed.tool,
                                            FirstToolCall(tool_calls)),
                        exec_ok, FALSE)
  /\ UNCHANGED << cfgVars, otherVars, current_id, provider_supports_functions, wrapVars,
                  listed, chunks, ops >>

IsEmptyResponseUnstripped(text_output) == text_output = << >>

\* `not text_output or not text_output.strip()`
IsEmptyResponse(text_output) == text_output = << >> \/ Strip(text_output) = << >>

EmptyResponse ==
  Raised("empty_response", << "LLM returned empty response" >>, "RuntimeError")

\* the response carries no tool call: 170-207, 377-412
ReceiveText(scope) ==
  /\ pc = "awaiting"
  /\ ~UsesStream
  /\ \E content \in scope.contents, exec_ok \in BOOLEAN :
       LET text_output == IF Truthy(content) THEN content ELSE << >>
           parsed == ExtractToolCommandFromText(text_output)
       IN
       /\ requests' = Append(requests,
            IF ~frame.supports_functions /\ frame.has_mcp_tools /\ parsed.ok
            THEN Request(FALSE, "tool_text", None, text_output, parsed)
            ELSE Request(FALSE, "final_text", None, text_output, NoCall))
       /\ IF ~frame.supports_functions /\ frame.has_mcp_tools /\ parsed.ok
            THEN IF ~frame.mcp_client
                   THEN /\ Raise(Raised("no_client", << "no client is configured" >>,
                                        "RuntimeError"))
                        /\ UNCHANGED << frame, tool_call_history, dispatched, tool_events >>
                 ELSE Dispatch(parsed.server, parsed.tool, parsed.params,
                               Msg("assistant", text_output, << >>, None),
                               RenderTextualToolMessage(parsed.server, parsed.tool),
                               exec_ok, TRUE)
          ELSE /\ IF IsEmptyResponse(text_output)
                    THEN Raise(EmptyResponse)
                    ELSE /\ pc' = "returned"
                         /\ outcome' = Returned(text_output)
               /\ UNCHANGED << frame, tool_call_history, dispatched, tool_events >>
  /\ UNCHANGED << cfgVars, otherVars, current_id, provider_supports_functions, wrapVars,
                  listed, chunks, ops >>

----------------------------------------------------------------------------
(* The streamed round of complete_streaming: registry.py 284-325 *)

\* a loop that hands every text fragment to on_chunk, the empty ones too
RECURSIVE ConsumeEveryFragment(_, _)
ConsumeEveryFragment(stream, delivered) ==
  IF stream = << >> THEN [texts |-> delivered, tool |-> FALSE]
  ELSE LET chunk == Head(stream) IN
       IF chunk.kind = "nodelta" THEN ConsumeEveryFragment(Tail(stream), delivered)
       ELSE IF chunk.kind = "tool" THEN [texts |-> delivered, tool |-> TRUE]
       ELSE ConsumeEveryFragment(Tail(stream), Append(delivered, chunk.content))

\* the for loop over the stream: the fragments passed to on_chunk, and
\* whether a tool-call fragment ended the loop
RECURSIVE Consume(_, _)
Consume(stream, delivered) ==
  IF stream = << >> THEN [texts |-> delivered, tool |-> FALSE]
  ELSE LET chunk == Head(stream) IN
       IF chunk.kind = "nodelta" THEN Consume(Tail(stream), delivered)
       ELSE IF chunk.kind = "tool" THEN [texts |-> delivered, tool |-> TRUE]
       ELSE IF chunk.content # << >>
         THEN Consume(Tail(stream), Append(delivered, chunk.content))
       ELSE Consume(Tail(stream), delivered)

\* "".join(parts)
RECURSIVE Join(_)
Join(parts) == IF parts = << >> THEN << >> ELSE Head(parts) \o Join(Tail(parts))

\* a streamed round: the stream ends, breaks on a tool-call fragment, or raises
ProviderStreams(scope) ==
  /\ pc = "awaiting"
  /\ UsesStream
  /\ \E stream \in scope.streams,
        exc \in { e \in scope.exceptions : e.exc_class # "AttributeError" }
                  \cup { Exc(None, << >>) } :
       LET r == Consume(stream, << >>)
           text_output == Join(r.texts)
           exc_class == exc.exc_class
           message == exc.message
       IN
       /\ requests' = Append(requests,
            [(IF r.tool THEN Request(TRUE, "tool_fragment", None, << >>, NoCall)
              ELSE IF exc_class # None
                THEN Request(TRUE, "exception", exc_class, << >>, NoCall)
              ELSE Request(TRUE, "final_text", None, text_output, NoCall))
             EXCEPT !.chunks = stream])
       /\ chunks' = chunks \o r.texts
       /\ IF r.tool
            THEN /\ frame' = [frame EXCEPT !.fallback = TRUE]
                 /\ UNCHANGED << pc, outcome, provider_supports_functions >>
          ELSE IF exc_class # None
            THEN HandleProviderException(exc_class, message)
          ELSE /\ IF IsEmptyResponse(text_output)
                    THEN Raise(EmptyResponse)
                    ELSE /\ pc' = "returned"
                         /\ outcome' = Returned(text_output)
               /\ UNCHANGED << frame, provider_supports_functions >>
  /\ UNCHANGED << cfgVars, otherVars, current_id, tool_events, tool_call_history, wrapVars,
                  dispatched, listed, ops >>

----------------------------------------------------------------------------
(* The callers *)

\* the direct caller takes the result; the frame is gone
DirectReturn ==
  /\ pc \in { "returned", "raised" }
  /\ frame.caller = "direct"
  /\ pc' = "idle"
  /\ frame' = IdleFrame
  /\ outcome' = NoOutcome
  /\ requests' = << >>
  /\ dispatched' = << >>
  /\ listed' = << >>
  /\ chunks' = << >>
  /\ UNCHANGED << cfgVars, otherVars, current_id, provider_supports_functions, tool_events,
                  tool_call_history, wrapVars, ops >>

\* PlanningRepl._run_with_streaming calls complete_streaming with its on_chunk
ReplRunWithStreaming(scope) ==
  /\ pc = "idle" /\ wpc = "idle" /\ ops < scope.max_ops
  /\ ops' = ops + 1
  /\ \E prompt \in scope.prompts, mcp_client \in scope.clients,
        system_prompt \in scope.system_prompts,
        envval \in EnvValues, listing \in Listings(scope) :
       Enter("streaming", "repl", prompt, None, mcp_client, system_prompt,
             TRUE, envval, listing)
  /\ UNCHANGED << cfgVars, otherVars, current_id, tool_events, wrapVars >>

\* a handler that keeps only the last fragment
PartialLastOnly(accumulated) ==
  IF accumulated = << >> THEN << >> ELSE accumulated[Len(accumulated)]

\* "".join(accumulated)
Partial(accumulated) == Join(accumulated)

KeyboardInterrupt == Raised("interrupt", << >>, "KeyboardInterrupt")

\* the user interrupts _run_with_streaming: while a request of
\* complete_streaming is in flight, after any number of fragments of a
\* stream, or when complete_streaming has returned and the closing newline is
\* printed. No handler of complete_streaming catches the interrupt; the
\* except clause of _run_with_streaming ends the operation (pc "interrupted")
ReplInterrupt(scope) ==
  /\ frame.caller = "repl"
  /\ pc \in { "awaiting", "returned" }
  /\ \E stream \in (IF pc = "awaiting" /\ UsesStream THEN scope.streams ELSE { << >> }) :
       \E k \in 0 .. Len(stream) :
         LET r == Consume(SubSeq(stream, 1, k), << >>)
             accumulated == chunks \o r.texts
             partial == Partial(accumulated)
         IN
         /\ ~r.tool
         /\ requests' = IF pc = "awaiting"
              THEN Append(requests,
                     [Request(UsesStream, "interrupted", "KeyboardInterrupt", << >>, NoCall)
                      EXCEPT !.chunks = SubSeq(stream, 1, k)])
              ELSE requests
         /\ chunks' = accumulated
         /\ pc' = "interrupted"
         /\ outcome' = IF partial # << >> THEN Returned(partial) ELSE KeyboardInterrupt
  /\ UNCHANGED << cfgVars, otherVars, current_id, provider_supports_functions, tool_events,
                  tool_call_history, frame, wrapVars, dispatched, listed, ops >>

\* _run_with_streaming hands its result to the REPL; the frame is gone
ReplReturn ==
  /\ pc \in { "returned", "raised", "interrupted" }
  /\ frame.caller = "repl"
  /\ pc' = "idle"
  /\ frame' = IdleFrame
  /\ outcome' = NoOutcome
  /\ requests' = << >>
  /\ dispatched' = << >>
  /\ listed' = << >>
  /\ chunks' = << >>
  /\ UNCHANGED << cfgVars, otherVars, current_id, provider_supports_functions, tool_events,
                  tool_call_history, wrapVars, ops >>

\* the running thread is descheduled and the other one runs: the locals of
\* the two calls of complete change places, the fields of the registry stay
Switch ==
  /\ wpc = "idle"
  /\ << pc, suspended.pc >> # << "idle", "idle" >>
  /\ suspended' = [pc |-> pc, frame |-> frame, outcome |-> outcome,
                    requests |-> requests, dispatched |-> dispatched,
                    listed |-> listed, chunks |-> chunks]
  /\ pc' = suspended.pc
  /\ frame' = suspended.frame
  /\ outcome' = suspended.outcome
  /\ requests' = suspended.requests
  /\ dispatched' = suspended.dispatched
  /\ listed' = suspended.listed
  /\ chunks' = suspended.chunks
  /\ UNCHANGED << cfgVars, reply, merge, memory, repl, current_id, provider_supports_functions,
                  tool_events, tool_call_history, wrapVars, ops >>

\* complete merges the generation parameters: registry.py 78. Only the
\* local dict is updated; after holds the arguments as the call leaves them
Merge ==
  /\ ~merge.called
  /\ merge' = [merge EXCEPT
                 !.called = TRUE,
                 !.result = MergeGenerationParams(merge.model_defaults, merge.params,
                                                  merge.task_params),
                 !.after = << merge.model_defaults, merge.params, merge.task_params >>]
  /\ UNCHANGED << cfgVars, suspended, reply, memory, repl, current_id, provider_supports_functions,
                  tool_events, tool_call_history, pc, frame, outcome, wrapVars,
                  requests, dispatched, listed, chunks, ops >>

----------------------------------------------------------------------------
(* The planning REPL loop: planning/repl.py 94-164 *)

HISTORY_WINDOW == 5
MAX_LLM_COMPLETION_ATTEMPTS == 2

\* one REPL session of a few turns
TurnScope ==
  [max_ops |-> 2,
   prompts |-> { << "Need", " ", "outline" >> },
   model_ids |-> { None },
   clients |-> { TRUE },
   system_prompts |-> { NoneText },
   max_attempts |-> { MAX_LLM_COMPLETION_ATTEMPTS },
   list_outcomes |-> { o \in ListOutcomes : o.ok },
   exceptions |-> { e \in ProviderExceptions : e.exc_class = "Timeout" /\ e.message # << >> },
   tool_call_lists |-> { l \in ToolCallLists :
                           /\ Len(l) = 1 /\ l[1].name = ToolBridgeName
                           /\ ParseMcpToolCall(l[1]).ok },
   contents |-> { << "done" >> },
   streams |-> { st \in ChunkStreams : Len(st) = 2 \/ Len(st) = 1 }]

\* `self._history[-window:] if window else []`
HistorySlice(history, window) ==
  IF window <= 0 THEN << >>
  ELSE IF Len(history) > window
    THEN SubSeq(history, Len(history) - window + 1, Len(history))
  ELSE history

StartTurn(turn, line) == [kind |-> "start", turn |-> turn, text |-> line]
EndTurn(turn, text) == [kind |-> "end", turn |-> turn, text |-> text]

\* the turn index is advanced and start_turn is logged: 108-109
TurnStarted(line, rpc) ==
  [repl EXCEPT !.turn_index = repl.turn_index + 1,
               !.log = Append(repl.log, StartTurn(repl.turn_index + 1, line)),
               !.history_slice = HistorySlice(repl.history, HISTORY_WINDOW),
               !.rpc = rpc]

\* /stream
ReplToggleStreaming ==
  /\ repl.rpc = "input"
  /\ repl' = [repl EXCEPT !.streaming = ~repl.streaming]
  /\ UNCHANGED << cfgVars, suspended, reply, merge, memory, current_id,
                  provider_supports_functions, tool_events, tool_call_history,
                  pc, frame, outcome, wrapVars, requests, dispatched, listed, chunks,
                  ops >>

\* /quit, end of input or an interrupt at the input line
ReplQuit ==
  /\ repl.rpc = "input"
  /\ repl' = [repl EXCEPT !.rpc = "closed"]
  /\ UNCHANGED << cfgVars, suspended, reply, merge, memory, current_id,
                  provider_supports_functions, tool_events, tool_call_history,
                  pc, frame, outcome, wrapVars, requests, dispatched, listed, chunks,
                  ops >>

\* a message is entered and build_planning_prompt is called with the
\* mcp_query_history keyword, which prompts/planning.py does not take: the
\* TypeError is raised outside the try and leaves run()
ReplTurnRaises(scope) ==
  /\ repl.rpc = "input" /\ ops < scope.max_ops
  /\ ~repl.builder_takes_queries
  /\ ops' = ops + 1
  /\ \E line \in scope.prompts : repl' = TurnStarted(line, "crashed")
  /\ UNCHANGED << cfgVars, suspended, reply, merge, memory, current_id,
                  provider_supports_functions, tool_events, tool_call_history,
                  pc, frame, outcome, wrapVars, requests, dispatched, listed, chunks >>

\* a message is entered with streaming off: run_completion_with_feedback
ReplTurnWrapped(scope) ==
  /\ repl.rpc = "input" /\ ops < scope.max_ops
  /\ pc = "idle" /\ wpc = "idle"
  /\ repl.builder_takes_queries /\ ~repl.streaming
  /\ ops' = ops + 1
  /\ \E line \in scope.prompts, max_attempts \in scope.max_attempts,
        mcp_client \in scope.clients, system_prompt \in scope.system_prompts :
       /\ repl' = TurnStarted(line, "turn")
       /\ wframe' = [attempt |-> 0, base_prompt |-> line, current_prompt |-> line,
                     max_attempts |-> max_attempts, model_id |-> None,
                     mcp_client |-> mcp_client, system_prompt |-> system_prompt]
  /\ wpc' = "loop"
  /\ woutcome' = NoOutcome
  /\ prompts' = << >>
  /\ failures' = << >>
  /\ UNCHANGED << cfgVars, suspended, reply, merge, memory, current_id,
                  provider_supports_functions, tool_events, tool_call_history,
                  pc, frame, outcome, requests, dispatched, listed, chunks >>

\* a message is entered with streaming on: _run_with_streaming
ReplTurnStreamed(scope) ==
  /\ repl.rpc = "input" /\ ops < scope.max_ops
  /\ pc = "idle" /\ wpc = "idle"
  /\ repl.builder_takes_queries /\ repl.streaming
  /\ ops' = ops + 1
  /\ \E line \in scope.prompts, mcp_client \in scope.clients,
        system_prompt \in scope.system_prompts,
        envval \in EnvValues, listing \in Listings(scope) :
       /\ repl' = TurnStarted(line, "turn")
       /\ Enter("streaming", "repl", line, None, mcp_client, system_prompt,
                TRUE, envval, listing)
  /\ UNCHANGED << cfgVars, suspended, reply, merge, memory, current_id, tool_events,
                  wrapVars >>

\* the turn ended well: tool trace popped, end_turn, history
TurnSucceeded(output) ==
  [repl EXCEPT !.log = Append(repl.log, EndTurn(repl.turn_index, output)),
               !.history = Append(repl.history, repl.turn_index),
               !.rpc = "input"]

\* run_completion_with_feedback returned or raised LlmCompletionError: 139-160
ReplEndTurnWrapped ==
  /\ repl.rpc = "turn"
  /\ wpc \in { "returned", "raised" }
  /\ IF woutcome.kind = "text"
       THEN /\ repl' = TurnSucceeded(woutcome.text)
            /\ tool_events' = << >>
       ELSE /\ repl' = [repl EXCEPT
                          !.log = Append(repl.log,
                                    EndTurn(repl.turn_index,
                                            << "LLM call failed: " >> \o woutcome.message)),
                          !.rpc = "input"]
            /\ UNCHANGED tool_events
  /\ wpc' = "idle"
  /\ wframe' = IdleWrapper
  /\ woutcome' = NoOutcome
  /\ prompts' = << >>
  /\ failures' = << >>
  /\ outcome' = NoOutcome
  /\ requests' = << >>
  /\ dispatched' = << >>
  /\ listed' = << >>
  /\ chunks' = << >>
  /\ UNCHANGED << cfgVars, suspended, reply, merge, memory, current_id,
                  provider_supports_functions, tool_call_history, pc, frame, ops >>

\* _run_with_streaming returned or raised; what it raises is never an
\* LlmCompletionError, so it passes the except clause and leaves run()
ReplEndTurnStreamed ==
  /\ repl.rpc = "turn"
  /\ frame.caller = "repl"
  /\ pc \in { "returned", "raised", "interrupted" }
  /\ IF outcome.kind = "text"
       THEN /\ repl' = TurnSucceeded(outcome.text)
            /\ tool_events' = << >>
       ELSE /\ repl' = [repl EXCEPT !.rpc = "crashed"]
            /\ UNCHANGED tool_events
  /\ pc' = "idle"
  /\ frame' = IdleFrame
  /\ outcome' = NoOutcome
  /\ requests' = << >>
  /\ dispatched' = << >>
  /\ listed' = << >>
  /\ chunks' = << >>
  /\ UNCHANGED << cfgVars, suspended, reply, merge, memory, current_id,
                  provider_supports_functions, tool_call_history, wrapVars, ops >>

----------------------------------------------------------------------------
(* The LLM tool server: mcp/llm_tool.py *)

\* the "prompt" argument of a tools/call
ToolPrompts == { << >>, << " ", "\n" >>, << " ", "Summarise", "\n" >> }

\* one tools/call on the LLM tool server: the skill's model, its system
\* prompt (never empty), no tool executor
ToolScope ==
  [max_ops |-> 1,
   prompts |-> ToolPrompts,
   model_ids |-> { DefaultModel, "router" },
   clients |-> { FALSE },
   system_prompts |-> { p \in SystemPrompts : p # NoneText },
   max_attempts |-> { 2 },
   list_outcomes |-> { o \in ListOutcomes : o.ok },
   exceptions |-> { e \in ProviderExceptions : e.exc_class # "AttributeError" },
   tool_call_lists |-> { l \in ToolCallLists : Len(l) = 1 /\ l[1].name = ToolBridgeName },
   contents |-> { << >>, << "done" >>, << " ", "done", "\n" >> },
   streams |-> {}]

\* the result call_tool and _handle_call build for a failure
ErrorResult(text) == [isError |-> TRUE, items |-> << >>, text |-> text]

\* what LlmToolHandler.call_tool returns once the wrapper has ended
CallToolResult(out) ==
  IF out.kind = "error"
    THEN ErrorResult(<< "LLM skill failed after retries:", " " >> \o out.message)
  ELSE LET text == Strip(out.text) IN
       [isError |-> None, items |-> << [type |-> "llm", body |-> text] >>, text |-> text]

\* _handle_call up to the call of run_completion_with_feedback
HandleCall(scope) ==
  /\ pc = "idle" /\ wpc = "idle" /\ ops < scope.max_ops
  /\ ops' = ops + 1
  /\ prompts' = << >>
  /\ failures' = << >>
  /\ woutcome' = NoOutcome
  /\ \E argument \in scope.prompts, max_attempts \in scope.max_attempts,
        model_id \in scope.model_ids, mcp_client \in scope.clients,
        system_prompt \in scope.system_prompts :
       LET prompt == Strip(argument) IN
       IF prompt = << >>
         THEN /\ reply' = ErrorResult(<< "Missing required 'prompt' argument." >>)
              /\ UNCHANGED << wpc, wframe >>
       ELSE /\ reply' = NoReply
            /\ wpc' = "loop"
            /\ wframe' = [attempt |-> 0, base_prompt |-> prompt,
                          current_prompt |-> prompt, max_attempts |-> max_attempts,
                          model_id |-> model_id, mcp_client |-> mcp_client,
                          system_prompt |-> system_prompt]
  /\ UNCHANGED << cfgVars, suspended, merge, memory, repl, current_id, provider_supports_functions,
                  tool_events, tool_call_history, pc, frame, outcome,
                  requests, dispatched, listed, chunks >>

\* the wrapper has ended: call_tool builds its result, _handle_call marks
\* it and writes the response; prompts and failures keep what was observed
HandleCallReply ==
  /\ wpc \in { "returned", "raised" }
  /\ reply' = [CallToolResult(woutcome) EXCEPT !.isError = FALSE]
  /\ wpc' = "idle"
  /\ wframe' = IdleWrapper
  /\ woutcome' = NoOutcome
  /\ outcome' = NoOutcome
  /\ requests' = << >>
  /\ dispatched' = << >>
  /\ listed' = << >>
  /\ chunks' = << >>
  /\ UNCHANGED << cfgVars, suspended, merge, memory, repl, current_id, provider_supports_functions,
                  tool_events, tool_call_history, pc, frame, prompts, failures, ops >>

----------------------------------------------------------------------------
\* ModelRegistry.set_current with a registered id
SetCurrent(scope) ==
  /\ pc = "idle" /\ wpc = "idle" /\ ops < scope.max_ops
  /\ ops' = ops + 1
  /\ \E model_id \in (scope.model_ids \cap ModelIds) \cup { DefaultModel } :
       /\ model_id # current_id
       /\ current_id' = model_id
  /\ UNCHANGED << cfgVars, otherVars, provider_supports_functions, tool_events,
                  tool_call_history, pc, frame, outcome, wrapVars,
                  requests, dispatched, listed, chunks >>

\* ModelRegistry.pop_tool_events
PopToolEvents ==
  /\ pc = "idle" /\ wpc = "idle"
  /\ tool_events # << >>
  /\ tool_events' = << >>
  /\ UNCHANGED << cfgVars, otherVars, current_id, provider_supports_functions,
                  tool_call_history, pc, frame, outcome, wrapVars,
                  requests, dispatched, listed, chunks, ops >>

----------------------------------------------------------------------------
(* run_completion_with_feedback: executor.py *)

FeedbackHeader == "SYSTEM FEEDBACK:"

\* _default_feedback_builder
DefaultFeedbackBuilder(base_prompt, error_message) ==
  LET sanitized_prompt == RStrip(base_prompt)
      sanitized_error == Strip(error_message)
      feedback ==
        << FeedbackHeader, "\n",
           "The previous LLM completion attempt failed with the following error:", "\n" >>
        \o sanitized_error
        \o << "\n", "Please adjust your response formatting and retry." >>
  IN IF sanitized_prompt # << >>
       THEN sanitized_prompt \o << "\n", "\n" >> \o feedback
       ELSE feedback

\* `should_retry = attempt < max_attempts`
ShouldRetryOnceMore(attempt, max_attempts) == attempt <= max_attempts

ShouldRetry(attempt, max_attempts) == attempt < max_attempts

\* `current_prompt = feedback_builder(base_prompt, message)`
NextPromptAccumulating(w, message) ==
  DefaultFeedbackBuilder(w.current_prompt, message)

NextPrompt(w, message) == DefaultFeedbackBuilder(w.base_prompt, message)

\* `str(exc).strip() or exc.__class__.__name__`
FailureMessage(out) ==
  IF Strip(out.message) # << >> THEN Strip(out.message) ELSE << out.exc_class >>

\* a caller calls run_completion_with_feedback
WrapperCall(scope) ==
  /\ pc = "idle" /\ wpc = "idle" /\ ops < scope.max_ops
  /\ ops' = ops + 1
  /\ \E prompt \in scope.prompts, max_attempts \in scope.max_attempts,
        model_id \in scope.model_ids, mcp_client \in scope.clients,
        system_prompt \in scope.system_prompts :
       wframe' = [attempt |-> 0, base_prompt |-> prompt, current_prompt |-> prompt,
                  max_attempts |-> max_attempts, model_id |-> model_id,
                  mcp_client |-> mcp_client, system_prompt |-> system_prompt]
  /\ wpc' = "loop"
  /\ woutcome' = NoOutcome
  /\ prompts' = << >>
  /\ failures' = << >>
  /\ UNCHANGED << cfgVars, otherVars, current_id, provider_supports_functions, tool_events,
                  tool_call_history, pc, frame, outcome,
                  requests, dispatched, listed, chunks >>

\* the head of the while loop: attempt += 1 and the call of registry.complete
WrapperAttempt(scope) ==
  /\ wpc = "loop" /\ pc = "idle"
  /\ wframe' = [wframe EXCEPT !.attempt = wframe.attempt + 1]
  /\ wpc' = "calling"
  /\ prompts' = Append(prompts, wframe.current_prompt)
  /\ \E envval \in EnvValues, listing \in Listings(scope) :
       Enter("complete", "wrapper", wframe.current_prompt, wframe.model_id,
             wframe.mcp_client, wframe.system_prompt, FALSE, envval, listing)
  /\ UNCHANGED << cfgVars, otherVars, current_id, tool_events, woutcome, failures, ops >>

\* complete returned or raised inside the try
WrapperHandle ==
  /\ wpc = "calling"
  /\ pc \in { "returned", "raised" }
  /\ IF pc = "returned"
       THEN /\ wpc' = "returned"
            /\ woutcome' = outcome
            /\ UNCHANGED << wframe, failures >>
     ELSE LET message == FailureMessage(outcome)
              should_retry == ShouldRetry(wframe.attempt, wframe.max_attempts)
          IN /\ failures' = Append(failures,
                              [attempt |-> wframe.attempt, message |-> message,
                               should_retry |-> should_retry])
             /\ IF ~should_retry
                  THEN /\ wpc' = "raised"
                       /\ woutcome' = Raised("completion_failed", message,
                                             "LlmCompletionError")
                       /\ UNCHANGED wframe
                  ELSE /\ wpc' = "loop"
                       /\ woutcome' = NoOutcome
                       /\ wframe' = [wframe EXCEPT !.current_prompt =
                                       NextPrompt(wframe, message)]
  /\ pc' = "idle"
  /\ frame' = IdleFrame
  /\ UNCHANGED << cfgVars, otherVars, current_id, provider_supports_functions, tool_events,
                  tool_call_history, outcome, prompts, requests, dispatched, listed,
                  chunks, ops >>

\* the caller of the wrapper takes the result
WrapperReturn ==
  /\ wpc \in { "returned", "raised" }
  /\ wpc' = "idle"
  /\ wframe' = IdleWrapper
  /\ woutcome' = NoOutcome
  /\ prompts' = << >>
  /\ failures' = << >>
  /\ outcome' = NoOutcome
  /\ requests' = << >>
  /\ dispatched' = << >>
  /\ listed' = << >>
  /\ chunks' = << >>
  /\ UNCHANGED << cfgVars, otherVars, current_id, provider_supports_functions, tool_events,
                  tool_call_history, pc, frame, ops >>

----------------------------------------------------------------------------

\* completions and registry operations, one after the other
Next ==
  \/ CallComplete(SeqScope)
  \/ CallCompleteStreaming(SeqScope)
  \/ ProviderRaises(SeqScope)
  \/ ReceiveToolCalls(SeqScope)
  \/ ReceiveText(SeqScope)
  \/ ProviderStreams(SeqScope)
  \/ DirectReturn
  \/ SetCurrent(SeqScope)
  \/ PopToolEvents

Spec == Init /\ [][Next]_vars

\* one completion, on every configuration
NextLoop ==
  \/ CallComplete(LoopScope)
  \/ CallCompleteStreaming(LoopScope)
  \/ ProviderRaises(LoopScope)
  \/ ReceiveToolCalls(LoopScope)
  \/ ReceiveText(LoopScope)
  \/ ProviderStreams(LoopScope)
  \/ DirectReturn

SpecLoop == InitLoop /\ [][NextLoop]_vars

\* the retry wrapper around complete
NextRetry ==
  \/ WrapperCall(RetryScope)
  \/ WrapperAttempt(RetryScope)
  \/ ProviderRaises(RetryScope)
  \/ ReceiveToolCalls(RetryScope)
  \/ ReceiveText(RetryScope)
  \/ WrapperHandle
  \/ WrapperReturn

SpecRetry == Init /\ [][NextRetry]_vars

\* one completion fed with tool requests in both forms
NextParse ==
  \/ CallComplete(ParseScope)
  \/ ProviderRaises(ParseScope)
  \/ ReceiveToolCalls(ParseScope)
  \/ ReceiveText(ParseScope)
  \/ DirectReturn

SpecParse == Init /\ [][NextParse]_vars

\* one completion over several tool servers
NextCatalog ==
  \/ CallComplete(CatalogScope)
  \/ ProviderRaises(CatalogScope)
  \/ ReceiveToolCalls(CatalogScope)
  \/ ReceiveText(CatalogScope)
  \/ DirectReturn

SpecCatalog == InitCatalog /\ [][NextCatalog]_vars

\* one streamed completion started by the planning REPL
NextRepl ==
  \/ ReplRunWithStreaming(ReplScope)
  \/ ProviderRaises(ReplScope)
  \/ ReceiveToolCalls(ReplScope)
  \/ ReceiveText(ReplScope)
  \/ ProviderStreams(ReplScope)
  \/ ReplInterrupt(ReplScope)
  \/ ReplReturn

SpecRepl == Init /\ [][NextRepl]_vars

\* two completions interleaved on one registry
NextThreads ==
  \/ CallComplete(ThreadScope)
  \/ ProviderRaises(ThreadScope)
  \/ ReceiveToolCalls(ThreadScope)
  \/ ReceiveText(ThreadScope)
  \/ DirectReturn
  \/ Switch

SpecThreads == Init /\ [][NextThreads]_vars

\* one completion fed with structured tool calls of every shape
NextStructured ==
  \/ CallComplete(StructuredScope)
  \/ ProviderRaises(StructuredScope)
  \/ ReceiveToolCalls(StructuredScope)
  \/ ReceiveText(StructuredScope)
  \/ DirectReturn

SpecStructured == Init /\ [][NextStructured]_vars

\* one completion, streamed or not, over the same responses
NextStreamed ==
  \/ CallComplete(StreamedScope)
  \/ CallCompleteStreaming(StreamedScope)
  \/ ReceiveToolCalls(StreamedScope)
  \/ ReceiveText(StreamedScope)
  \/ ProviderStreams(StreamedScope)
  \/ DirectReturn

SpecStreamed == InitDetect /\ [][NextStreamed]_vars

\* one completion of repeated tool requests
NextDetect ==
  \/ CallComplete(DetectScope)
  \/ ReceiveToolCalls(DetectScope)
  \/ ReceiveText(DetectScope)
  \/ DirectReturn

SpecDetect == InitDetect /\ [][NextDetect]_vars

\* completions with and without a model id, around set_current
NextPolicy ==
  \/ CallComplete(PolicyScope)
  \/ ProviderRaises(PolicyScope)
  \/ ReceiveToolCalls(PolicyScope)
  \/ ReceiveText(PolicyScope)
  \/ DirectReturn
  \/ SetCurrent(PolicyScope)

SpecPolicy == InitLoop /\ [][NextPolicy]_vars

\* the turns of one REPL session
NextTurns ==
  \/ ReplToggleStreaming
  \/ ReplQuit
  \/ ReplTurnRaises(TurnScope)
  \/ ReplTurnWrapped(TurnScope)
  \/ ReplTurnStreamed(TurnScope)
  \/ WrapperAttempt(TurnScope)
  \/ ProviderRaises(TurnScope)
  \/ ReceiveToolCalls(TurnScope)
  \/ ReceiveText(TurnScope)
  \/ ProviderStreams(TurnScope)
  \/ WrapperHandle
  \/ ReplInterrupt(TurnScope)
  \/ ReplEndTurnWrapped
  \/ ReplEndTurnStreamed

SpecTurns == InitTurns /\ [][NextTurns]_vars

\* calls on one file-backed memory store
NextMemory ==
  \/ MemoryAdd
  \/ MemoryDelete
  \/ MemoryClear

SpecMemory == InitMemory /\ [][NextMemory]_vars

\* one call of merge_generation_params
NextParams == Merge

SpecParams == InitParams /\ [][NextParams]_vars

\* one tools/call on the LLM tool server
NextTool ==
  \/ HandleCall(ToolScope)
  \/ WrapperAttempt(ToolScope)
  \/ ProviderRaises(ToolScope)
  \/ ReceiveToolCalls(ToolScope)
  \/ ReceiveText(ToolScope)
  \/ WrapperHandle
  \/ HandleCallReply

SpecTool == Init /\ [][NextTool]_vars

----------------------------------------------------------------------------
(* Properties of one completion, checked under SpecLoop *)

Finished == pc \in { "returned", "raised" }

\* the loop of this completion was entered
InLoop == pc = "awaiting" \/ (Finished /\ frame.model # None)

EffectiveConfig == GetToolIterationConfig(current_id, tool_iteration_defaults)

\* the rounds in which the response asked for a tool
ToolRounds ==
  { i \in 1 .. Len(requests) : requests[i].response \in { "tool_calls", "tool_text" } }

\* C1: with loop detection enabled, no signature is dispatched while it is
\* among the loop_window most recently dispatched calls of the completion:
\* the second of two identical calls inside the window is refused.
C1_NoRepeatInsideWindow ==
  (InLoop /\ EffectiveConfig.detect_loops) =>
    \A i, j \in 1 .. Len(dispatched) :
      (i < j /\ j - i <= EffectiveConfig.loop_window) => dispatched[i] # dispatched[j]

\* every response of the completion asked for a tool, the calls were well
\* formed and pairwise different, and the executor served them
DistinctToolEveryRound ==
  /\ requests # << >>
  /\ frame.mcp_client
  /\ \A i \in 1 .. Len(requests) :
       /\ requests[i].response \in { "tool_calls", "tool_text", "tool_fragment" }
       /\ requests[i].response # "tool_fragment" => requests[i].call.ok
  /\ \A i, j \in ToolRounds :
       i # j => CallSignature(requests[i].call.server, requests[i].call.tool,
                              requests[i].call.params)
                # CallSignature(requests[j].call.server, requests[j].call.tool,
                                requests[j].call.params)

\* C2: the round counter and the number of executor calls never exceed
\* max_iterations, a completion makes at most 2 * max_iterations + 3 provider
\* calls (so it ends), and one whose every round asks for a different tool
\* call ends with the iteration-limit error.
C2_BoundedRounds ==
  InLoop =>
    /\ frame.attempt <= frame.max_tool_iterations
    /\ Len(dispatched) <= frame.max_tool_iterations
    /\ Len(requests) <= 2 * frame.max_tool_iterations + 3
    /\ (Finished /\ DistinctToolEveryRound /\ outcome.error # "executor_error")
         => (pc = "raised" /\ outcome.error = "iteration_limit")

\* C3: the iteration-limit error is raised only for a tool request that
\* arrives when the counter already equals max_iterations, and that request
\* is not dispatched: one more tool round than executor calls.
C3_LimitBeforeDispatch ==
  (pc = "raised" /\ outcome.error = "iteration_limit") =>
    /\ Len(dispatched) = frame.max_tool_iterations
    /\ Cardinality(ToolRounds) = Len(dispatched) + 1

\* the rounds that ended in a capability downgrade
Downgrades ==
  { i \in 1 .. Len(requests) :
      /\ requests[i].response = "exception"
      /\ requests[i].exc_class = "BadRequestError"
      /\ requests[i].supports_functions }

\* C4: a bad-request failure while function calling is believed supported
\* downgrades the provider type, happens at most once per completion, and
\* is followed by one request of the same round (same messages, same
\* counter) without the tool definition; a later bad-request failure ends
\* the completion with that error.
C4_OneDowngradeOneRetry ==
  InLoop =>
    /\ Cardinality(Downgrades) <= 1
    /\ \A i \in Downgrades :
         /\ provider_supports_functions[frame.ptype] = "no"
         /\ i = Len(requests) => (pc = "awaiting" /\ frame.attempt = requests[i].attempt)
         /\ i < Len(requests) =>
              /\ requests[i + 1].tools = << >>
              /\ requests[i + 1].attempt = requests[i].attempt
              /\ requests[i + 1].messages = requests[i].messages
         /\ \A j \in (i + 1) .. Len(requests) :
              /\ requests[j].tools = << >>
              /\ (requests[j].response = "exception"
                    /\ requests[j].exc_class = "BadRequestError")
                   => /\ j = Len(requests)
                      /\ pc = "raised"
                      /\ outcome.error = "provider_error"
                      /\ outcome.exc_class = "BadRequestError"

C4_Witness ==
  /\ pc = "raised" /\ outcome.exc_class = "BadRequestError"
  /\ \E i \in Downgrades :
       /\ requests[i].tools # << >>
       /\ requests[i].attempt > 0
       /\ Len(requests) > i + 1

\* every token is whitespace (the empty text included)
Blank(text) == \A k \in 1 .. Len(text) : text[k] \in WS

\* C6: a completion never returns an empty or whitespace-only text: a text
\* accepted as final ends the completion at once, with the empty-response
\* error if it is blank and as the returned value otherwise.
C6_NeverReturnsBlank ==
  /\ pc = "returned" => (outcome.kind = "text" /\ ~Blank(outcome.text))
  /\ \A i \in 1 .. Len(requests) :
       requests[i].response = "final_text" =>
         /\ i = Len(requests)
         /\ Finished
         /\ Blank(requests[i].text) => (pc = "raised" /\ outcome.error = "empty_response")
         /\ ~Blank(requests[i].text) => (pc = "returned" /\ outcome.text = requests[i].text)

C6_Witness ==
  /\ pc = "raised" /\ outcome.error = "empty_response"
  /\ requests[Len(requests)].text # << >>
  /\ requests[Len(requests)].stream

\* the model, the provider or the credential of a call cannot be resolved
Unresolvable(model_id, envval) ==
  LET mid == IF model_id = None \/ model_id = "" THEN current_id ELSE model_id IN
  \/ mid \notin ModelIds
  \/ Models(mid).provider \notin ProviderIds
  \/ /\ Providers(Models(mid).provider).api_key \in { None, "" }
     /\ \/ Providers(Models(mid).provider).api_key_env \in { None, "" }
        \/ envval \in { None, "" }

\* C10: a call whose model, provider or credential cannot be resolved fails
\* before any provider call, catalog listing or tool-executor call.
C10_FailsBeforeAnyCall ==
  (pc # "idle" /\ Unresolvable(frame.model_id, frame.envval)) =>
    /\ pc = "raised"
    /\ outcome.error \in { "unknown_model", "unknown_provider", "missing_credential" }
    /\ requests = << >>
    /\ listed = << >>
    /\ dispatched = << >>

C10_Witness ==
  /\ pc = "raised" /\ outcome.error = "missing_credential"
  /\ frame.mode = "complete"
  /\ frame.model_id = "router" /\ frame.envval = ""
  /\ mcp_servers # << >>

----------------------------------------------------------------------------
(* Properties of the capability cache, checked under Spec *)

\* C5: once the flag of a provider type is "no function calling", no step
\* sets it back, and no request sent for that provider type from then on
\* carries the structured tool definition.
C5_FlagMonotone ==
  [][\A t \in ProviderTypes :
       provider_supports_functions[t] = "no" =>
         /\ provider_supports_functions'[t] = "no"
         /\ (Len(requests') > Len(requests) /\ frame.ptype = t)
              => requests'[Len(requests')].tools = << >>]_vars

C5_Witness ==
  /\ ops = 2
  /\ pc = "returned"
  /\ frame.ptype = "openai" /\ frame.has_mcp_tools
  /\ provider_supports_functions["openai"] = "no"
  /\ requests # << >>
  /\ Downgrades = {}

----------------------------------------------------------------------------
(* Properties of run_completion_with_feedback, checked under SpecRetry *)

\* the number of attempts the wrapper may make: max_attempts, at least one
AttemptCeiling == IF wframe.max_attempts < 1 THEN 1 ELSE wframe.max_attempts

IsPrefix(p, s) == Len(p) <= Len(s) /\ SubSeq(s, 1, Len(p)) = p

\* C8: the first attempt gets the caller's prompt; every later attempt gets
\* the caller's prompt followed by exactly one SYSTEM FEEDBACK block that
\* holds the message of the failure just before it, and no message of an
\* earlier failure.
C8_FeedbackOnBasePrompt ==
  \A i \in 1 .. Len(prompts) :
    /\ i = 1 => prompts[i] = wframe.base_prompt
    /\ i > 1 =>
         /\ IsPrefix(wframe.base_prompt, prompts[i])
         /\ Count(prompts[i], << FeedbackHeader >>) = 1
         /\ Find(prompts[i], << FeedbackHeader >>, 1) > Len(wframe.base_prompt)
         /\ Find(prompts[i], failures[i - 1].message, 1)
              > Find(prompts[i], << FeedbackHeader >>, 1)
         /\ \A j \in 1 .. (i - 2) :
              failures[j].message # failures[i - 1].message
                => ~Contains(prompts[i], failures[j].message)

C8_Witness ==
  /\ Len(prompts) = 3
  /\ failures[1].message # failures[2].message
  /\ wpc = "returned"

\* C9: a completion starts with an empty loop-detector history and a round
\* counter of 0, whatever earlier completions and earlier attempts of the
\* wrapper left behind; the history only ever holds the calls of the
\* running completion, so a call is flagged as a loop only on account of
\* calls dispatched in the same completion.
C9_FreshStatePerCompletion ==
  /\ (pc = "awaiting" /\ requests = << >>)
       => (tool_call_history = << >> /\ frame.attempt = 0)
  /\ InLoop => tool_call_history = dispatched
  /\ (pc = "raised" /\ outcome.error = "loop_detected") =>
       LET call == requests[Len(requests)].call IN
       \E i \in 1 .. Len(dispatched) :
         dispatched[i] = CallSignature(call.server, call.tool, call.params)

C9_Witness ==
  /\ wframe.attempt >= 2
  /\ pc = "awaiting"
  /\ requests # << >>
  /\ dispatched # << >>
  /\ Len(tool_events) > Len(dispatched)
  /\ tool_events[1] = dispatched[1]

ConfigurationErrors == { "unknown_model", "unknown_provider", "missing_credential" }

\* C11: an attempt that fails with an unknown-model, unknown-provider or
\* missing-credential error is the wrapper's last one: the wrapper does not
\* go back to the head of its loop for another attempt.
C11_ConfigurationErrorsNotRetried ==
  [][(wpc = "calling" /\ pc = "raised" /\ outcome.error \in ConfigurationErrors)
       => wpc' # "loop"]_vars

----------------------------------------------------------------------------
(* Properties of the conversation, checked under SpecLoop *)

\* a message that renders the result of a tool call, on either path
IsToolResult(msg) ==
  \/ msg.role = "tool"
  \/ /\ msg.role = "assistant"
     /\ msg.content # NoneText /\ msg.content # << >>
     /\ msg.content[1] = "TOOL_RESULT"

\* the positions of the tool results in a conversation, and the rank of one
ToolResults(messages) == { k \in 1 .. Len(messages) : IsToolResult(messages[k]) }
Rank(messages, k) == Cardinality({ j \in ToolResults(messages) : j <= k })

\* the message records a request for a tool: structured calls, or text
RecordsToolRequest(msg) ==
  /\ msg.role = "assistant"
  /\ ~IsToolResult(msg)
  /\ \/ msg.tool_calls # << >>
     \/ (msg.content # NoneText /\ ExtractToolCommandFromText(msg.content).ok)

\* the tool result at position k answers the message before it and renders
\* the n-th call handed to the executor
WellPlacedResult(messages, k, n) ==
  /\ k > 1
  /\ RecordsToolRequest(messages[k - 1])
  /\ messages[k].role = "tool" =>
       /\ messages[k - 1].tool_calls # << >>
       /\ messages[k].tool_call_id = messages[k - 1].tool_calls[1]
  /\ n <= Len(dispatched)
  /\ messages[k].content[Len(messages[k].content) - 1] = dispatched[n][1]
  /\ messages[k].content[Len(messages[k].content)] = dispatched[n][2]

\* C12: in every conversation sent to the provider each tool result comes
\* right after the assistant message that recorded its request, the results
\* are in the order the calls were executed, and there is exactly one per
\* call executed so far.
C12_ResultsFollowRequests ==
  /\ \A i \in 1 .. Len(requests) :
       LET ms == requests[i].messages IN
       /\ Cardinality(ToolResults(ms)) = requests[i].attempt
       /\ \A k \in ToolResults(ms) : WellPlacedResult(ms, k, Rank(ms, k))
  /\ pc = "awaiting" =>
       /\ Cardinality(ToolResults(frame.messages)) = Len(dispatched)
       /\ \A k \in ToolResults(frame.messages) :
            WellPlacedResult(frame.messages, k, Rank(frame.messages, k))

C12_Witness ==
  \E i \in 1 .. Len(requests) :
    LET ms == requests[i].messages IN
    /\ Cardinality(ToolResults(ms)) = 2
    /\ \E k, l \in ToolResults(ms) :
         /\ k < l
         /\ ms[k].role = "tool" /\ ms[l].role = "assistant"
         /\ dispatched[1] # dispatched[2]

\* no tool server is configured, or the caller supplied no tool executor
ToolsUnavailable == mcp_servers = << >> \/ ~frame.mcp_client

\* C13: without tool servers or without a tool executor a completion lists
\* no catalog, sends no tool definition, hands nothing to the executor and
\* takes no text for a tool call, whatever the provider answers; a text
\* that is not blank is returned as it is.
C13_NoToolsWithoutServers ==
  (InLoop /\ ToolsUnavailable) =>
    /\ listed = << >>
    /\ dispatched = << >>
    /\ \A i \in 1 .. Len(requests) :
         /\ requests[i].tools = << >>
         /\ requests[i].response # "tool_text"
         /\ (requests[i].response = "final_text" /\ ~Blank(requests[i].text))
              => (pc = "returned" /\ outcome.text = requests[i].text)

----------------------------------------------------------------------------
(* Properties of the two tool-call parsers, checked under SpecParse *)

\* C14: a JSON object {server, tool, params} with non-empty server and
\* tool gives the same (server, tool, params) request whether it arrives as
\* the arguments of a structured tool call or after the textual marker: a
\* text made of the marker and such an object is taken as the tool call the
\* structured parser reads from the object.
C14_SameRequestOnBothPaths ==
  \A i \in 1 .. Len(requests) :
    \A t \in TripleTexts :
      ( /\ requests[i].response \in { "tool_text", "final_text" }
        /\ ~requests[i].supports_functions
        /\ requests[i].text = TextualCall(t) )
      => /\ requests[i].response = "tool_text"
         /\ ParseMcpToolCall(ToolCall("call_1", ToolBridgeName, t)).ok
         /\ requests[i].call = ParseMcpToolCall(ToolCall("call_1", ToolBridgeName, t))

----------------------------------------------------------------------------
(* Properties of the catalog collection, checked under SpecCatalog *)

\* C15: a catalog collection lists every configured server once, in
\* order, and does not end the completion; its result has one entry per
\* configured server, empty for a server whose listing raised and holding
\* the named tools listed for every other server.
C15_CollectionNeverAborts ==
  listed # << >> =>
    /\ InLoop
    /\ Len(listed) = Len(mcp_servers)
    /\ Len(frame.tool_metadata) = Len(mcp_servers)
    /\ \A i \in 1 .. Len(mcp_servers) :
         /\ listed[i].server = mcp_servers[i]
         /\ frame.tool_metadata[i].server = mcp_servers[i]
         /\ ~listed[i].ok => frame.tool_metadata[i].entries = << >>
         /\ listed[i].ok =>
              /\ Len(frame.tool_metadata[i].entries)
                   = Cardinality({ k \in 1 .. Len(listed[i].tools) :
                                     listed[i].tools[k] \notin { None, "" } })
              /\ \A k \in 1 .. Len(listed[i].tools) :
                   listed[i].tools[k] \notin { None, "" } =>
                     \E n \in 1 .. Len(frame.tool_metadata[i].entries) :
                       frame.tool_metadata[i].entries[n] = listed[i].tools[k]

C15_Witness ==
  /\ pc = "returned"
  /\ Len(listed) = 3
  /\ ~listed[1].ok /\ listed[2].ok /\ ~listed[3].ok
  /\ Len(frame.tool_metadata[2].entries) = 2
  /\ dispatched # << >>

----------------------------------------------------------------------------
(* Properties of a failing tool executor, checked under SpecLoop *)

\* C16: when the tool executor raises, the completion ends with that very
\* exception; the round that asked for the call is the last request made,
\* the call went to the executor once, and the round left no message in the
\* conversation and did not advance the counter.
C16_ExecutorFailurePropagates ==
  (pc = "raised" /\ outcome.error = "executor_error") =>
    LET last == requests[Len(requests)] IN
    /\ outcome.exc_class = "McpError"
    /\ outcome.message = << "tool failed" >>
    /\ last.response \in { "tool_calls", "tool_text" }
    /\ last.call.ok
    /\ dispatched # << >>
    /\ dispatched[Len(dispatched)]
         = CallSignature(last.call.server, last.call.tool, last.call.params)
    /\ Len(dispatched) = Cardinality(ToolRounds)
    /\ frame.messages = last.messages
    /\ frame.attempt = last.attempt
    /\ Len(tool_events) = Len(dispatched) - 1

C16_Witness ==
  /\ pc = "raised" /\ outcome.error = "executor_error"
  /\ requests[Len(requests)].response = "tool_text"
  /\ requests[Len(requests)].attempt = 1
  /\ requests[1].response = "tool_calls"

----------------------------------------------------------------------------
(* Properties of the streamed rounds, checked under SpecLoop *)

\* the non-empty text fragments of a stream, in arrival order
TextFragments(stream) ==
  LET kept == SelectSeq(stream, LAMBDA c : c.kind = "text" /\ c.content # << >>)
  IN [k \in 1 .. Len(kept) |-> kept[k].content]

\* a streamed round has just ended at end-of-stream, without a tool-call
\* fragment and without an exception
StreamEnds ==
  /\ Len(requests') = Len(requests) + 1
  /\ requests'[Len(requests')].stream
  /\ requests'[Len(requests')].response = "final_text"

\* C17: a streamed round that reaches end-of-stream without a tool-call
\* fragment has handed the callback every non-empty text fragment of the
\* stream, once and in arrival order, and the completion returns their
\* concatenation, or fails with the empty-response error when that is
\* blank.
C17_StreamedTextDelivered ==
  [][StreamEnds =>
       LET fragments == TextFragments(requests'[Len(requests')].chunks)
           whole == Join(fragments)
       IN /\ chunks' = chunks \o fragments
          /\ requests'[Len(requests')].text = whole
          /\ IF Blank(whole)
               THEN pc' = "raised" /\ outcome'.error = "empty_response"
               ELSE pc' = "returned" /\ outcome'.text = whole]_vars

C17_Witness ==
  /\ pc = "returned"
  /\ requests[Len(requests)].stream
  /\ Len(requests[Len(requests)].chunks) = 2
  /\ chunks = << << "Hel" >>, << "lo" >> >>
  /\ outcome.text = << "Hel", "lo" >>

\* the text fragments of a stream that come before its first tool-call
\* fragment
BeforeToolFragment(stream) ==
  LET tools == { k \in 1 .. Len(stream) : stream[k].kind = "tool" }
      first == IF tools = {} THEN Len(stream) + 1
               ELSE CHOOSE k \in tools : \A j \in tools : k <= j
  IN TextFragments(SubSeq(stream, 1, first - 1))

\* what the callback received from the streamed rounds of the log
RECURSIVE Delivered(_)
Delivered(reqs) ==
  IF reqs = << >> THEN << >>
  ELSE Delivered(SubSeq(reqs, 1, Len(reqs) - 1))
         \o BeforeToolFragment(reqs[Len(reqs)].chunks)

\* the streamed rounds cut short by a tool-call fragment
AbortedStreams ==
  { i \in 1 .. Len(requests) : requests[i].response = "tool_fragment" }

\* C18: a stream that yields a tool-call fragment is consumed no further:
\* the callback gets only the text that came before the fragment; the same
\* round is sent again at once, once, as a non-streaming request with the
\* same messages, tools and counter, and its response is handled as in any
\* non-streaming round.
C18_AbortedStreamReissued ==
  /\ InLoop => chunks = Delivered(requests)
  /\ \A i \in AbortedStreams :
       /\ requests[i].stream
       /\ i = Len(requests) => (pc = "awaiting" /\ frame.attempt = requests[i].attempt
                                  /\ frame.messages = requests[i].messages)
       /\ i < Len(requests) =>
            /\ ~requests[i + 1].stream
            /\ requests[i + 1].attempt = requests[i].attempt
            /\ requests[i + 1].messages = requests[i].messages
            /\ requests[i + 1].tools = requests[i].tools
            /\ requests[i + 1].response \in { "exception", "tool_calls", "tool_text",
                                             "final_text" }
       /\ (i + 2 <= Len(requests) /\ requests[i + 2].attempt = requests[i].attempt)
            => requests[i + 2].stream

C18_Witness ==
  /\ pc = "awaiting"
  /\ \E i \in AbortedStreams :
       /\ Len(requests) = i + 1
       /\ BeforeToolFragment(requests[i].chunks) # << >>
       /\ Len(TextFragments(requests[i].chunks)) > Len(BeforeToolFragment(requests[i].chunks))
       /\ requests[i + 1].response = "tool_calls"
       /\ frame.attempt = requests[i].attempt + 1

\* C19: no streaming request is made while the round counter is 0, the
\* retry after a capability downgrade included, nor by complete or without
\* a callback; with a callback, every request of complete_streaming made
\* with a counter above 0 is a streaming one, except the one that re-issues
\* a round whose stream was cut short by a tool-call fragment.
C19_StreamsAfterFirstToolRound ==
  \A i \in 1 .. Len(requests) :
    /\ requests[i].stream =>
         /\ requests[i].attempt > 0
         /\ frame.mode = "streaming"
         /\ frame.on_chunk
    /\ (frame.mode = "streaming" /\ frame.on_chunk /\ requests[i].attempt > 0
          /\ ~requests[i].stream)
         => /\ i > 1
            /\ requests[i - 1].response = "tool_fragment"
            /\ requests[i - 1].attempt = requests[i].attempt

C19_Witness ==
  /\ Len(requests) >= 3
  /\ 1 \in Downgrades
  /\ ~requests[2].stream /\ requests[2].attempt = 0
  /\ requests[3].stream /\ requests[3].attempt = 1

----------------------------------------------------------------------------
(* Properties of the REPL's streamed completion, checked under SpecRepl *)

\* C20: when the user interrupts a streamed completion, the operation
\* returns the concatenation of the text fragments handed to the callback so
\* far, wherever the interrupt arrives.
C20_InterruptReturnsAccumulated ==
  pc = "interrupted" => outcome = Returned(Join(chunks))

\* C20, amended: the operation returns the concatenation of the fragments
\* handed to the callback so far when that text is not empty; when no text
\* has accumulated, the interrupt propagates to the caller.
C20_InterruptReturnsNonEmptyPartial ==
  pc = "interrupted" =>
    IF Join(chunks) # << >>
      THEN outcome = Returned(Join(chunks))
      ELSE outcome = KeyboardInterrupt

\* an interrupt in the middle of the second streamed round, after the first
\* one was cut short by a tool-call fragment
C20_Witness ==
  /\ pc = "interrupted"
  /\ Len(chunks) >= 2
  /\ AbortedStreams # {}
  /\ requests[Len(requests)].stream
  /\ Len(requests[Len(requests)].chunks) = 1
  /\ outcome.kind = "text"

----------------------------------------------------------------------------
(* Properties of interleaved completions, checked under SpecThreads *)

\* the running completion and the suspended one
Completions ==
  { [pc |-> pc, frame |-> frame, outcome |-> outcome, requests |-> requests,
     dispatched |-> dispatched, listed |-> listed, chunks |-> chunks],
    suspended }

\* the verdict the loop detector gives on the calls of one completion alone
OwnVerdict(c, k, call_signature) ==
  c.frame.detect_loops
    /\ IsLoopDetected(SubSeq(c.dispatched, 1, k), call_signature,
                      GetToolIterationConfig(current_id, tool_iteration_defaults))

\* C21: of two completions interleaved on one registry, each gets the
\* loop-detection verdicts its own tool calls give: a call it dispatched was
\* not a repeat among its own earlier calls, a completion that ends with
\* "loop detected" repeated one of its own calls, and the iteration limit
\* ends a completion only when its own counter reached the limit.
C21_VerdictsFromOwnCalls ==
  \A c \in Completions :
    /\ \A k \in 1 .. Len(c.dispatched) : ~OwnVerdict(c, k - 1, c.dispatched[k])
    /\ (c.pc = "raised" /\ c.outcome.error = "loop_detected") =>
         LET call == c.requests[Len(c.requests)].call IN
         OwnVerdict(c, Len(c.dispatched),
                    CallSignature(call.server, call.tool, call.params))
    /\ (c.pc = "raised" /\ c.outcome.error = "iteration_limit") =>
         c.frame.attempt >= c.frame.max_tool_iterations

----------------------------------------------------------------------------
(* Properties of the LLM tool server, checked under SpecTool *)

IsSuffix(p, t) ==
  Len(p) <= Len(t) /\ SubSeq(t, Len(t) - Len(p) + 1, Len(t)) = p

\* C22: a tools/call whose completion failed on every attempt is answered
\* after exactly 2 attempts with isError true, no item and a text that
\* names the failure; one whose completion succeeded is answered with
\* isError false and one item carrying the text.
C22_ToolCallAnswer ==
  (reply # NoReply /\ prompts # << >>) =>
    IF Len(failures) = Len(prompts)
      THEN /\ Len(prompts) = 2
           /\ reply.isError = TRUE
           /\ reply.items = << >>
           /\ IsSuffix(failures[2].message, reply.text)
      ELSE /\ reply.isError = FALSE
           /\ Len(reply.items) = 1
           /\ reply.items[1].body = reply.text
           /\ reply.text # << >>

----------------------------------------------------------------------------
(* Properties of the parameter merge, checked under SpecParams *)

Keys(d) == { kv[1] : kv \in d }
Overrides == IF merge.task_params = << >> THEN {} ELSE merge.task_params[1]

\* the value the layers give a key: per-call, else the model's, else the
\* process-wide default
LayeredValue(key) ==
  IF key \in Keys(Overrides) THEN { kv \in Overrides : kv[1] = key }
  ELSE IF key \in Keys(merge.params) THEN { kv \in merge.params : kv[1] = key }
  ELSE { kv \in merge.model_defaults : kv[1] = key }

\* C23: the merged parameters have exactly the keys of the three layers,
\* each with the whole value of the last layer that names it (per-call, else
\* model, else process-wide), also when no overrides are passed; the call
\* leaves its arguments as they were.
C23_MergedParams ==
  merge.called =>
       /\ Keys(merge.result)
            = Keys(merge.model_defaults) \cup Keys(merge.params) \cup Keys(Overrides)
       /\ \A key \in Keys(merge.result) :
            { kv \in merge.result : kv[1] = key } = LayeredValue(key)
       /\ merge.after = << merge.model_defaults, merge.params, merge.task_params >>

\* the three layers name one key, the per-call value is a nested dict and
\* the model's value another one
C23_Witness ==
  /\ merge.called
  /\ merge.task_params # << >>
  /\ \E k \in Keys(merge.model_defaults) \cap Keys(merge.params) \cap Keys(Overrides) :
       \E a \in merge.params, b \in merge.result :
         /\ a[1] = k /\ b[1] = k /\ a[2] # b[2]

----------------------------------------------------------------------------
(* Properties of the manual memory store, checked under SpecMemory *)

\* what a listing shows of the entries: ids, labels, texts, in order
Shown(entries) ==
  LET listing == ListEntries(entries) IN
  [i \in 1 .. Len(listing) |->
     << listing[i].entry_id, listing[i].label, listing[i].text >>]

EntryIdsOf(entries) == { entries[i].entry_id : i \in 1 .. Len(entries) }

\* C24: after any sequence of add, delete and clear, a store loaded from
\* the same path lists the entries (ids, labels, texts) the live store
\* lists; an add of empty or whitespace-only text raises and changes
\* neither the store nor the file; a delete of an unknown id returns False
\* and changes neither.
C24_ReloadListsTheSame ==
  /\ [](Shown(Load(memory.file)) = Shown(memory.entries))
  /\ [][ /\ (memory'.last.op = "add" /\ Strip(memory'.last.arg) = << >>) =>
              /\ memory'.last.result = "ValueError"
              /\ memory'.entries = memory.entries
              /\ memory'.file = memory.file
         /\ (memory'.last.op = "delete"
               /\ memory'.last.arg[1] \notin EntryIdsOf(memory.entries)) =>
              /\ memory'.last.result = "False"
              /\ memory'.entries = memory.entries
              /\ memory'.file = memory.file ]_vars

\* two entries added out of clock order, one labelled, after a rejected add
\* or a delete of an unknown id
C24_Witness ==
  /\ Len(memory.entries) = 2
  /\ memory.entries[1].created_at > memory.entries[2].created_at
  /\ memory.entries[1].label # NoneText
  /\ memory.last.result \in { "ValueError", "False" }

----------------------------------------------------------------------------
(* Properties of the REPL loop, checked under SpecTurns *)

\* C25: the turn log is start_turn(1), end_turn(1), start_turn(2), ...; a
\* turn that is not running has its end_turn; the loop ends only on the
\* user's exit; the history holds the turns that succeeded; the prompt is
\* built from at most HISTORY_WINDOW of them.
C25_TurnsLoggedAndLoopSurvives ==
  /\ \A k \in 1 .. Len(repl.log) :
       /\ repl.log[k].kind = (IF k % 2 = 1 THEN "start" ELSE "end")
       /\ repl.log[k].turn = (k + 1) \div 2
  /\ Len(repl.log) = (IF repl.rpc = "turn" THEN 2 * repl.turn_index - 1
                      ELSE 2 * repl.turn_index)
  /\ repl.rpc # "crashed"
  /\ \A i \in 1 .. Len(repl.history) :
       /\ 2 * repl.history[i] <= Len(repl.log)
       /\ repl.log[2 * repl.history[i]].text # << >>
       /\ repl.log[2 * repl.history[i]].text[1] # "LLM call failed: "
  /\ Len(repl.history_slice) <= HISTORY_WINDOW

----------------------------------------------------------------------------
(* Properties of the two call paths, checked under SpecLoop *)

\* the responses read on the textual path: no structured tool call, the
\* provider believed unable to call functions, tools available
TextualRounds ==
  { i \in 1 .. Len(requests) :
      /\ ~requests[i].stream
      /\ requests[i].response \in { "final_text", "tool_text" }
      /\ ~requests[i].supports_functions
      /\ frame.has_mcp_tools }

\* C26: on the textual path a text that holds the marker but no usable
\* request (invalid JSON, unbalanced braces, no server or no tool) ends the
\* round with the malformed-tool-call error; a text is accepted as the
\* final answer only when it holds no marker.
C26_MalformedTextualCallFails ==
  InLoop =>
    \A i \in TextualRounds :
      /\ (FindMarker(requests[i].text) # 0
            /\ ~ExtractToolCommandFromText(requests[i].text).ok) =>
           /\ i = Len(requests)
           /\ pc = "raised"
           /\ outcome.error = "malformed_tool_call"
      /\ (i = Len(requests) /\ pc = "returned") => FindMarker(requests[i].text) = 0

----------------------------------------------------------------------------
(* Properties of the structured parser, checked under SpecStructured *)

\* the rounds whose response carried structured tool calls
StructuredRounds == { i \in 1 .. Len(requests) : requests[i].response = "tool_calls" }

\* the arguments of the first tool call of round i, decoded
ArgumentsDoc(i) ==
  LET arguments == requests[i].tool_calls[1].arguments
  IN JsonLoads(IF arguments = << >> \/ arguments = NoneText
                 THEN << "{", "}" >> ELSE arguments)

\* wrong function name, arguments that are no JSON or no object, server or
\* tool missing or empty
MalformedAsListed(i) ==
  \/ requests[i].tool_calls[1].name # ToolBridgeName
  \/ ArgumentsDoc(i).kind # "object"
  \/ ~TruthyId(ArgumentsDoc(i).server)
  \/ ~TruthyId(ArgumentsDoc(i).tool)

\* the request read from a well-formed call: params (empty unless an
\* object) with every other top-level key folded in
FoldedRequest(i) ==
  LET doc == ArgumentsDoc(i) IN
  Parsed(TRUE, None, doc.server, doc.tool,
         DictUpdate(IF doc.pk = "obj" THEN doc.params ELSE {}, doc.extra))

\* a round whose call is malformed ends the completion with an error
RoundFailed(i) ==
  /\ ~requests[i].call.ok
  /\ i = Len(requests)
  /\ pc = "raised"
  /\ outcome.error \in { "malformed_tool_call", "iteration_limit" }

\* C27: on the structured path the call is malformed only for a wrong
\* function name, arguments that are no JSON or no object, or a missing or
\* empty server or tool; otherwise the request has the params object, or
\* empty parameters when params is absent or no object, with every other
\* top-level key folded in.
C27_StructuredParse ==
  \A i \in StructuredRounds :
    IF MalformedAsListed(i) THEN RoundFailed(i)
    ELSE requests[i].call = FoldedRequest(i)

\* C27, amended: a params value that is present and neither null nor an
\* object also makes the call malformed; params absent or null gives empty
\* parameters; the rest as above.
C27_StructuredParseStrictParams ==
  \A i \in StructuredRounds :
    IF MalformedAsListed(i) \/ ArgumentsDoc(i).pk \in { "falsy", "truthy" }
      THEN RoundFailed(i)
    ELSE requests[i].call = FoldedRequest(i)

\* a call with "params": 0 has ended the round, after a round whose call
\* was dispatched
C27_Witness ==
  /\ Len(requests) >= 2
  /\ requests[Len(requests)].response = "tool_calls"
  /\ ~MalformedAsListed(Len(requests))
  /\ ArgumentsDoc(Len(requests)).pk = "falsy"
  /\ pc = "raised" /\ outcome.error = "malformed_tool_call"
  /\ dispatched # << >>

----------------------------------------------------------------------------
(* Properties of the iteration policy, checked under SpecPolicy *)

\* the policy of a model: its override, else the caller-level default, else
\* the built-in one
PolicyOf(model) ==
  IF Models(model).tool_iteration_override # << >>
    THEN Models(model).tool_iteration_override[1]
  ELSE IF tool_iteration_defaults # << >> THEN tool_iteration_defaults[1]
  ELSE BuiltinToolIteration

\* C28: a completion runs under the policy of the model it resolves to (the
\* requested one, else the current one): that model's override, else the
\* caller-level default, else the built-in default (3, on, 2).
C28_PolicyOfResolvedModel ==
  /\ BuiltinToolIteration =
       [max_iterations |-> 3, detect_loops |-> TRUE, loop_window |-> 2]
  /\ InLoop =>
       /\ frame.model = (IF TruthyId(frame.model_id) THEN frame.model_id ELSE current_id)
       /\ frame.max_tool_iterations = PolicyOf(frame.model).max_iterations
       /\ frame.detect_loops = PolicyOf(frame.model).detect_loops

----------------------------------------------------------------------------
(* Properties of the capability downgrade, checked under SpecLoop *)

\* the rounds whose request failed with a bad request and carried no tools
BadRequestsWithoutTools ==
  { i \in 1 .. Len(requests) :
      /\ requests[i].response = "exception"
      /\ requests[i].exc_class = "BadRequestError"
      /\ requests[i].tools = << >> }

\* C29: a bad-request failure of a request sent without a tools field leaves
\* the provider's capability flag alone, is not retried in the same round and
\* is the error the round ends with.
C29_DowngradeOnlyWhenToolsWereSent ==
  \A i \in BadRequestsWithoutTools :
    /\ i = Len(requests)
    /\ pc = "raised"
    /\ outcome.error = "provider_error"
    /\ outcome.exc_class = "BadRequestError"
    /\ requests[i].supports_functions => provider_supports_functions[frame.ptype] = "yes"

----------------------------------------------------------------------------
(* Properties of a response with several tool calls, checked under SpecLoop *)

\* the signature the entry of a response stands for
EntrySignature(tool_call) ==
  LET parsed == ParseMcpToolCall(tool_call)
  IN CallSignature(parsed.server, parsed.tool, parsed.params)

\* this step receives a response that carries several structured tool calls
SeveralToolCallsArrive ==
  /\ Len(requests') = Len(requests) + 1
  /\ Len(requests'[Len(requests')].tool_calls) > 1

\* C30: a round that handles a response with several structured tool calls
\* invokes the tool executor once, for the first entry, adds that one
\* signature to the loop-detector history and raises the round counter by
\* one; no other entry is dispatched. (A round that ends before the
\* dispatch -- no client, limit reached, loop detected -- invokes nothing.)
C30_OnlyFirstToolCallDispatched ==
  [][SeveralToolCallsArrive =>
       LET tool_calls == requests'[Len(requests')].tool_calls
           first == EntrySignature(tool_calls[1])
       IN
       /\ \/ /\ dispatched' = Append(dispatched, first)
             /\ tool_call_history' = Append(tool_call_history, first)
          \/ /\ pc' = "raised"
             /\ outcome'.error \in { "no_client", "iteration_limit", "loop_detected" }
             /\ dispatched' = dispatched
             /\ tool_call_history' = tool_call_history
       /\ pc' # "raised" =>
            /\ Len(dispatched') = Len(dispatched) + 1
            /\ frame'.attempt = frame.attempt + 1
       /\ pc' = "raised" => frame'.attempt = frame.attempt
       /\ \A k \in 2 .. Len(tool_calls) :
            EntrySignature(tool_calls[k]) # first =>
              \A j \in 1 .. Len(dispatched') :
                dispatched'[j] # EntrySignature(tool_calls[k])]_vars

\* a response with two tool calls was handled: one dispatch, counter at one
C30_Witness ==
  /\ pc = "awaiting"
  /\ requests # << >>
  /\ Len(requests[Len(requests)].tool_calls) = 2
  /\ requests[Len(requests)].attempt = 0
  /\ frame.attempt = 1
  /\ Len(dispatched) = 1
  /\ Len(tool_call_history) = 1

----------------------------------------------------------------------------
(* Properties of the tool definition and the inventory, checked under
   SpecCatalog *)

\* the inventory of a whole catalog: the lines of every server that has tools
RECURSIVE WholeInventory(_)
WholeInventory(tool_metadata) ==
  IF tool_metadata = << >> THEN << >>
  ELSE (IF Head(tool_metadata).entries = << >> THEN << >>
        ELSE InventoryLines(Head(tool_metadata)))
       \o WholeInventory(Tail(tool_metadata))

\* the inventory a catalog should be described by
ExpectedInventory(tool_metadata) ==
  IF WholeInventory(tool_metadata) = << >> THEN NoInventory
  ELSE WholeInventory(tool_metadata)

\* C31: the tool definition sent to the provider has the configured servers
\* as its server enum and every tool of every server in its tool enum; the
\* inventory in the definition and in the system instruction names every
\* tool of every server, and is the placeholder text for a catalog without
\* tools, never a missing value.
C31_DefinitionNamesEveryTool ==
  (InLoop /\ frame.has_mcp_tools /\ listed # << >>) =>
    /\ frame.tools_payload # << >> =>
         /\ frame.tools_payload[1].server_enum = mcp_servers
         /\ \A i \in 1 .. Len(frame.tool_metadata) :
              \A k \in 1 .. Len(frame.tool_metadata[i].entries) :
                frame.tool_metadata[i].entries[k] \in frame.tools_payload[1].tool_enum
         /\ frame.tools_payload[1].inventory = ExpectedInventory(frame.tool_metadata)
    /\ frame.messages[1].role = "system"
    /\ frame.messages[1].content =
         << "TOOL_INSTRUCTION" >> \o mcp_servers \o << "Available tools:" >>
           \o ExpectedInventory(frame.tool_metadata)

----------------------------------------------------------------------------
(* Properties of disabled loop detection, checked under SpecDetect *)

\* the tool rounds that pass the checks made before the loop check: a
\* usable request and, on the structured path, a counter below the limit
RoundsUpToLoopCheck ==
  { i \in ToolRounds :
      /\ requests[i].call.ok
      /\ requests[i].response = "tool_calls" =>
           requests[i].attempt < frame.max_tool_iterations }

\* C32: with loop detection disabled no tool call is rejected as a loop,
\* whatever the history and the window: every tool round that reaches the
\* loop check is dispatched, and a provider that asks for a tool in every
\* round is stopped by the iteration limit only (or by a failing tool).
C32_DisabledDetectionNeverRejects ==
  (frame.model # None /\ ~frame.detect_loops) =>
    /\ ~(pc = "raised" /\ outcome.error = "loop_detected")
    /\ Len(dispatched) = Cardinality(RoundsUpToLoopCheck)
    /\ (pc = "raised" /\ ToolRounds = 1 .. Len(requests)) =>
         outcome.error \in { "iteration_limit", "executor_error" }

\* three identical calls were dispatched and the limit ended the completion
C32_Witness ==
  /\ ~frame.detect_loops
  /\ pc = "raised"
  /\ outcome.error = "iteration_limit"
  /\ Len(dispatched) = 3
  /\ dispatched[1] = dispatched[2]
  /\ dispatched[2] = dispatched[3]

----------------------------------------------------------------------------
(* Properties of streamed rounds on the textual path, checked under
   SpecStreamed *)

\* C33: complete_streaming handles a response as complete does: while
\* function calling is inactive and tools are enabled, a text that holds a
\* usable textual tool request is dispatched and never returned as the final
\* answer, also when the text arrived as a stream.
C33_StreamedTextIsScanned ==
  (pc = "returned" /\ frame.has_mcp_tools /\ ~frame.supports_functions) =>
    ~ExtractToolCommandFromText(outcome.text).ok

----------------------------------------------------------------------------
(* Properties of the tool messages of a conversation, checked under
   SpecLoop *)

\* the tool-result messages that directly follow message k of a conversation
ResultsAfter(messages, k) ==
  { n \in k + 1 .. Len(messages) :
      \A j \in k + 1 .. n : messages[j].role = "tool" }

\* C34: in every conversation sent to the provider each tool-call identifier
\* of an assistant message is answered by exactly one of the tool-result
\* messages that follow it, and every tool-result message answers an
\* identifier of the assistant message it follows -- also when the response
\* carried several tool calls.
C34_EveryToolCallAnswered ==
  \A i \in 1 .. Len(requests) :
    LET messages == requests[i].messages IN
    \A k \in 1 .. Len(messages) :
      /\ messages[k].role = "assistant" =>
           \A c \in 1 .. Len(messages[k].tool_calls) :
             Cardinality({ n \in ResultsAfter(messages, k) :
                             messages[n].tool_call_id = messages[k].tool_calls[c] }) = 1
      /\ messages[k].role = "tool" =>
           \E a \in 1 .. k - 1 :
             /\ messages[a].role = "assistant"
             /\ k \in ResultsAfter(messages, a)
             /\ \E c \in 1 .. Len(messages[a].tool_calls) :
                  messages[a].tool_calls[c] = messages[k].tool_call_id

----------------------------------------------------------------------------
(* Properties of the fragments handed to the callback, checked under
   SpecLoop *)

\* C35: when complete_streaming returns a text and the callback was called
\* during that completion, the fragments the callback received, joined in
\* order, are the returned text -- also after a stream that was cut short by
\* a tool-call fragment once some text had been delivered.
C35_CallbackTextIsReturnedText ==
  (pc = "returned" /\ frame.mode = "streaming" /\ chunks # << >>) =>
    Join(chunks) = outcome.text

----------------------------------------------------------------------------
(* Properties of the catalog collection per completion, checked under
   SpecLoop *)

\* C36: a completion for which tools are enabled has listed every configured
\* server once by the time of its first provider call, whether or not the
\* caller passed a system prompt, and the tool definition it sends names the
\* tools the servers listed.
C36_CatalogCollectedOncePerCompletion ==
  (InLoop /\ frame.has_mcp_tools) =>
    /\ Len(listed) = Len(mcp_servers)
    /\ \A i \in 1 .. Len(listed) : listed[i].server = mcp_servers[i]
    /\ \A r \in 1 .. Len(requests) :
         requests[r].tools # << >> =>
           \A i \in 1 .. Len(listed) :
             listed[i].ok =>
               \A k \in 1 .. Len(listed[i].tools) :
                 TruthyId(listed[i].tools[k]) =>
                   listed[i].tools[k] \in requests[r].tools[1].tool_enum

----------------------------------------------------------------------------
(* Properties of the tool-event trace, checked under SpecTurns *)

\* this step dispatches a tool call and the executor returns
ToolCallCompletes ==
  /\ Len(dispatched') = Len(dispatched) + 1
  /\ pc' # "raised" \/ outcome'.error # "executor_error"

\* this step starts a REPL turn
TurnStarts == repl.rpc = "input" /\ repl'.rpc = "turn"

\* this step ends a REPL turn with an answer
TurnShowsTrace == repl.rpc = "turn" /\ Len(repl'.history) = Len(repl.history) + 1

=============================================================================
